---- MODULE Spec2Model ----
(***************************************************************************)
(* A model of inkparse (src/src/inkparse/main.py): the StringIterator      *)
(* cursor, the Checkpoint transactional scope with its commit inheritance  *)
(* and its scope exit, the ParseError note trail, and the BasicParser      *)
(* factories (literal .. repeat1).                                         *)
(*                                                                         *)
(* The specifications of the module:                                       *)
(*   Spec, SpecNotes   the cursor / checkpoint machine (a parser           *)
(*             function's body: cursor moves, with-scopes opening and      *)
(*             closing, commits, notes, a raised ParseError unwinding);    *)
(*   SpecPosNote  the line and column of a position note;                  *)
(*   SpecFail  the same body returning and propagating ParseFailures;      *)
(*   SpecConvert  the same body converting a ParseFailure with error();    *)
(*   SpecTokens, SpecTokenCopies   the body building Token / Result        *)
(*             objects over shared subtoken lists;                         *)
(*   SpecRanges  the body making tokens while Savepoints and checkpoints   *)
(*             move the cursor back;                                       *)
(*   SpecEq    Token.__eq__ applied to a token and another object;         *)
(*   SpecLoop  the generators optional() and loop() under a for statement; *)
(*   SpecCursor  the StringIterator driven one public call at a time;      *)
(*   SpecSavepoint  the cursor and the calls on a Savepoint;               *)
(*   SpecComb  the combinators as pure functions: Init draws a source, a   *)
(*             start offset and a matcher, the action invokes the matcher; *)
(*   SpecRaise the same over matchers with a raising sub-matcher;          *)
(*   SpecRepeat  repeat0 / repeat1 one loop iteration at a time (fair).    *)
(*   SpecUnwind  the body raising an error built directly or from a        *)
(*             failure, the error leaving the open scopes;                 *)
(*   SpecScopes  the checkpoint machine remembering the ranges kept by     *)
(*             scope exits;                                                *)
(*   SpecAlias   ParseFailure objects over shared note lists.              *)
(* Text is a sequence of one-character strings.                            *)
(***************************************************************************)
EXTENDS Integers, Sequences, FiniteSets, TLC

VARIABLES
    src,        \* StringIterator.src: the text being parsed
    pos,        \* StringIterator.pos: the cursor offset
    cps,        \* the Checkpoint objects whose with-scope is open, outermost first
    exc,        \* the ParseError now propagating (<<>> when none, else <<error>>)
    last,       \* the operation that led to this state, with what it observed
    parser,     \* SpecComb: the matcher under test
    phase,      \* SpecComb: "ready" before the matcher is invoked, "done" after
    start,      \* SpecComb: the offset at which the matcher was invoked
    res,        \* SpecComb: what the invocation returned
    lists,      \* the list objects holding subtokens or notes, by identity (index)
    toks,       \* the Token / Result objects made so far, by identity (index)
    held        \* the ParseFailure objects made so far, by identity (index)

vars == <<src, pos, cps, exc, last, parser, phase, start, res, lists, toks, held>>

\* the objects of the specifications that track them
objects == <<lists, toks, held>>

NoObjects == lists = <<>> /\ toks = <<>> /\ held = <<>>

(***************************************************************************)
(* Bounds.                                                                 *)
(***************************************************************************)
MaxLen == 2
Alphabet == {"a", "A", " "}

\* const.WHITESPACES
Whitespaces == {" ", "\t", "\n", "\r", "\f"}

RECURSIVE StringsOfLen(_)
StringsOfLen(n) ==
    IF n = 0 THEN {<<>>}
    ELSE {Append(s, c) : s \in StringsOfLen(n - 1), c \in Alphabet}

Sources == UNION {StringsOfLen(n) : n \in 0..MaxLen}

NoRes == [st |-> "-", pos |-> 0, calls |-> <<>>]

NoLast ==
    [op |-> "init", c |-> 0,
     cp |-> [pos |-> 0, parent |-> 0, committed |-> FALSE, notes |-> <<>>, origin |-> "-"],
     before |-> 0]

(***************************************************************************)
(* Text helpers.                                                           *)
(***************************************************************************)
\* str.lower() on one character of the alphabet
LowerChar(c) == IF c = "A" THEN "a" ELSE c

\* str.lower()
Lower(s) == [i \in 1..Len(s) |-> LowerChar(s[i])]

\* a slice bound as Python normalises it: negative bounds count from the end,
\* and every bound is clamped into 0..len
SliceBound(i, n) ==
    IF i < 0 THEN (IF i + n < 0 THEN 0 ELSE i + n) ELSE (IF i > n THEN n ELSE i)

\* s[p : p+n]   (offsets are 0-based, as in Python)
Slice(s, p, n) ==
    LET lo == SliceBound(p, Len(s))
        hi == SliceBound(p + n, Len(s))
    IN  IF lo >= hi THEN <<>> ELSE [i \in 1..(hi - lo) |-> s[lo + i]]

\* s[p]: <<character>>, or <<>> when Python raises IndexError
Item(s, p) ==
    IF p >= 0 /\ p < Len(s) THEN <<s[p + 1]>>
    ELSE IF p < 0 /\ p + Len(s) >= 0 THEN <<s[p + Len(s) + 1]>>
    ELSE <<>>

(***************************************************************************)
(* StringIterator primitives, as functions of (text, offset).  Each        *)
(* returns [ok, pos]: the truthiness of the returned value and the offset  *)
(* the call leaves behind.  oneof_literals returns [hit, pos]: the index   *)
(* of the returned pattern in values (0 when it returns None).             *)
(***************************************************************************)
has_chars(s, p, n) == p + n <= Len(s)

\* peek(n): [ok, text], ok false when None is returned
si_peek(s, p, n) ==
    IF ~has_chars(s, p, n) THEN [ok |-> FALSE, text |-> <<>>]
    ELSE [ok |-> TRUE, text |-> Slice(s, p, n)]

\* peek(1) as ws0 and ws1 test it (None and "" are both in no set of characters)
peek1(s, p) == si_peek(s, p, 1).text

\* take(n): text is the string returned (ok false when None is returned)
si_take(s, p, n) ==
    IF ~has_chars(s, p, n) THEN [ok |-> FALSE, pos |-> p, text |-> <<>>]
    ELSE [ok |-> TRUE, pos |-> p + n, text |-> Slice(s, p, n)]

\* character(value): raised is true when src[pos] raises IndexError
character(s, p, value) ==
    IF ~has_chars(s, p, 1) THEN [ok |-> FALSE, pos |-> p, raised |-> FALSE]
    ELSE IF Item(s, p) = <<>> THEN [ok |-> FALSE, pos |-> p, raised |-> TRUE]
    ELSE IF Item(s, p) = value THEN [ok |-> TRUE, pos |-> p + 1, raised |-> FALSE]
    ELSE [ok |-> FALSE, pos |-> p, raised |-> FALSE]

character_anycase(s, p, value) ==
    IF ~has_chars(s, p, 1) THEN [ok |-> FALSE, pos |-> p, raised |-> FALSE]
    ELSE IF Item(s, p) = <<>> THEN [ok |-> FALSE, pos |-> p, raised |-> TRUE]
    ELSE IF Lower(Item(s, p)) = Lower(value)
         THEN [ok |-> TRUE, pos |-> p + 1, raised |-> FALSE]
    ELSE [ok |-> FALSE, pos |-> p, raised |-> FALSE]

si_literal(s, p, value) ==
    IF ~has_chars(s, p, Len(value)) THEN [ok |-> FALSE, pos |-> p]
    ELSE IF Slice(s, p, Len(value)) = value THEN [ok |-> TRUE, pos |-> p + Len(value)]
    ELSE [ok |-> FALSE, pos |-> p]

literal_anycase(s, p, value) ==
    IF ~has_chars(s, p, Len(value)) THEN [ok |-> FALSE, pos |-> p]
    ELSE IF Lower(Slice(s, p, Len(value))) = Lower(value)
         THEN [ok |-> TRUE, pos |-> p + Len(value)]
    ELSE [ok |-> FALSE, pos |-> p]

RECURSIVE oneof_literals(_, _, _, _)
oneof_literals(s, p, values, i) ==
    IF i > Len(values) THEN [hit |-> 0, pos |-> p]
    ELSE LET r == si_literal(s, p, values[i])
         IN  IF r.ok THEN [hit |-> i, pos |-> r.pos]
             ELSE oneof_literals(s, p, values, i + 1)

RECURSIVE oneof_literals_anycase(_, _, _, _)
oneof_literals_anycase(s, p, values, i) ==
    IF i > Len(values) THEN [hit |-> 0, pos |-> p]
    ELSE LET r == literal_anycase(s, p, values[i])
         IN  IF r.ok THEN [hit |-> i, pos |-> r.pos]
             ELSE oneof_literals_anycase(s, p, values, i + 1)

RECURSIVE si_ws0(_, _)
si_ws0(s, p) ==
    IF peek1(s, p) # <<>> /\ peek1(s, p)[1] \in Whitespaces THEN si_ws0(s, p + 1)
    ELSE [ok |-> TRUE, pos |-> p]

si_ws1(s, p) ==
    IF ~(peek1(s, p) # <<>> /\ peek1(s, p)[1] \in Whitespaces)
    THEN [ok |-> FALSE, pos |-> p]
    ELSE si_ws0(s, p + 1)

si_is_eof(s, p) == [ok |-> p >= Len(s), pos |-> p]

si_not_eof(s, p) == [ok |-> p >= Len(s), pos |-> p]

\* StringIterator.__bool__
si_bool(s, p) == p < Len(s)

(***************************************************************************)
(* Matchers.  A BasicParser is a record                                    *)
(*   [kind, vals, n, subs, onS, onF]                                       *)
(* kind: the factory that built it; vals: the values of literal/anycase;   *)
(* n: the amount of take/has_chars; subs: the sub-matchers, in declaration *)
(* order; onS, onF: the success / fail continuation of optional (<<>> when *)
(* not supplied, else <<matcher>>).                                        *)
(*                                                                         *)
(* An invocation returns [st, pos, calls]:                                 *)
(*   st     "T" a truthy value was returned, "F" a falsy one, "H" the call *)
(*          never returns (a while loop whose body succeeds without moving *)
(*          the cursor repeats the same iteration forever), a member of    *)
(*          Errors: the call raised that ParseError;                       *)
(*   pos    the offset the call leaves behind;                             *)
(*   calls  the invocations of its own sub-matchers, in the order they     *)
(*          happened: [i, at, st] = sub-matcher i was invoked at offset at *)
(*          and returned st (the continuations of optional have the        *)
(*          indices OnSuccess and OnFail).                                 *)
(***************************************************************************)
Mk(kind, vals, n, subs, onS, onF) ==
    [kind |-> kind, vals |-> vals, n |-> n, subs |-> subs, onS |-> onS, onF |-> onF]

Ret(ok, p) == [st |-> IF ok THEN "T" ELSE "F", pos |-> p, calls |-> <<>>]

Call(i, at, r) == [i |-> i, at |-> at, st |-> r.st]

RECURSIVE Run(_, _, _)
RECURSIVE RunAll(_, _, _, _, _)
RECURSIVE RunAny(_, _, _, _, _)
RECURSIVE Loop(_, _, _, _)

\* the ParseErrors a matcher written by the caller raises, by message
Errors == {"E:x", "E:y"}

\* a matcher of the caller (BasicParserParam) that raises a ParseError:
\*   with si() as c: raise c.error(msg)
\* __exit__ rolls the cursor back to the checkpoint and does not swallow
fatal(m, s, p) == [st |-> m.vals[1][1], pos |-> p, calls |-> <<>>]

\* literal(*values)
literal(m, s, p) ==
    IF Len(m.vals) = 1
    THEN IF Len(m.vals[1]) = 1
         THEN LET r == character(s, p, m.vals[1]) IN Ret(r.ok, r.pos)
         ELSE LET r == si_literal(s, p, m.vals[1]) IN Ret(r.ok, r.pos)
    ELSE LET r == oneof_literals(s, p, m.vals, 1)
         IN  Ret(r.hit # 0 /\ m.vals[r.hit] # <<>>, r.pos)

\* anycase(*values)
anycase(m, s, p) ==
    IF Len(m.vals) = 1
    THEN IF Len(m.vals[1]) = 1
         THEN LET r == character_anycase(s, p, m.vals[1]) IN Ret(r.ok, r.pos)
         ELSE LET r == literal_anycase(s, p, m.vals[1]) IN Ret(r.ok, r.pos)
    ELSE LET r == oneof_literals_anycase(s, p, m.vals, 1)
         IN  Ret(r.hit # 0 /\ m.vals[r.hit] # <<>>, r.pos)

\* guard with the rollback left out
guard_no_rollback(save, v) == v

\* Savepoint.guard(v): v is the value just computed, save the captured offset
guard(save, v) == IF v.st = "F" THEN [v EXCEPT !.pos = save] ELSE v

\* rollback_inline rolling back as guard does, on a falsy value only
rollback_inline_if_falsy(save, v) == IF v.st = "F" THEN [v EXCEPT !.pos = save] ELSE v

\* Savepoint.rollback_inline(v)
rollback_inline(save, v) == IF v.st \in {"T", "F"} THEN [v EXCEPT !.pos = save] ELSE v

\* inverted_guard rolling back as guard does, on a falsy value
inverted_guard_on_falsy(save, v) == IF v.st = "F" THEN [v EXCEPT !.pos = save] ELSE v

\* Savepoint.inverted_guard(v)
inverted_guard(save, v) == IF v.st = "T" THEN [v EXCEPT !.pos = save] ELSE v

\* Python's not: the truth value negated, the cursor untouched
Not(v) ==
    IF v.st = "T" THEN [v EXCEPT !.st = "F"]
    ELSE IF v.st = "F" THEN [v EXCEPT !.st = "T"]
    ELSE v

\* all(parser(si) for parser in new_parsers), from sub-matcher i on
RunAll(subs, s, p, i, calls) ==
    IF i > Len(subs) THEN [st |-> "T", pos |-> p, calls |-> calls]
    ELSE LET r == Run(subs[i], s, p)
             c == Append(calls, Call(i, p, r))
         IN  IF r.st = "T" THEN RunAll(subs, s, r.pos, i + 1, c)
             ELSE [st |-> r.st, pos |-> r.pos, calls |-> c]

\* any() over a list built first: every sub-matcher is invoked
RECURSIVE RunAnyEager(_, _, _, _, _)
RunAnyEager(subs, s, p, i, calls) ==
    IF i > Len(subs)
    THEN [st |-> IF \E j \in 1..Len(calls) : calls[j].st = "T" THEN "T" ELSE "F",
          pos |-> p, calls |-> calls]
    ELSE LET r == Run(subs[i], s, p)
         IN  RunAnyEager(subs, s, r.pos, i + 1, Append(calls, Call(i, p, r)))

\* any() catching the ParseError of a branch and trying the next branch
RECURSIVE RunAnySwallow(_, _, _, _, _)
RunAnySwallow(subs, s, p, i, calls) ==
    IF i > Len(subs) THEN [st |-> "F", pos |-> p, calls |-> calls]
    ELSE LET r == Run(subs[i], s, p)
             c == Append(calls, Call(i, p, r))
         IN  IF r.st \in {"F"} \cup Errors THEN RunAnySwallow(subs, s, r.pos, i + 1, c)
             ELSE [st |-> r.st, pos |-> r.pos, calls |-> c]

\* any(parser(si) for parser in new_parsers), from sub-matcher i on
RunAny(subs, s, p, i, calls) ==
    IF i > Len(subs) THEN [st |-> "F", pos |-> p, calls |-> calls]
    ELSE LET r == Run(subs[i], s, p)
             c == Append(calls, Call(i, p, r))
         IN  IF r.st = "F" THEN RunAny(subs, s, r.pos, i + 1, c)
             ELSE [st |-> r.st, pos |-> r.pos, calls |-> c]

\* bool(parser(si)): the one sub-matcher of a single-argument combinator
Single(subs, s, p) ==
    LET r == Run(subs[1], s, p)
    IN  [st |-> r.st, pos |-> r.pos, calls |-> <<Call(1, p, r)>>]

\* the attempt of optional, inverted, repeat0 and repeat1:
\* bool(parser(si)) for one argument, si.save().guard(all(...)) for several
Atomic(subs, s, p) ==
    IF Len(subs) = 1 THEN Single(subs, s, p)
    ELSE guard(p, RunAll(subs, s, p, 1, <<>>))

\* seq(*parsers)
seq(m, s, p) == guard(p, RunAll(m.subs, s, p, 1, <<>>))

\* oneof(*parsers)
oneof(m, s, p) == RunAny(m.subs, s, p, 1, <<>>)

\* optional_oneof(*parsers): any(...) or True
optional_oneof(m, s, p) ==
    LET r == RunAny(m.subs, s, p, 1, <<>>)
    IN  IF r.st = "F" THEN [r EXCEPT !.st = "T"] ELSE r

\* a continuation of optional, run where the attempt left the cursor
Cont(i, k, s, a) ==
    LET r == Run(k, s, a.pos)
    IN  [st |-> r.st, pos |-> r.pos, calls |-> Append(a.calls, Call(i, a.pos, r))]

\* the call index of the success and of the fail continuation
OnSuccess == 0
OnFail == -1

\* optional(*parsers, success=, fail=)
optional(m, s, p) ==
    LET a == Atomic(m.subs, s, p)
    IN  IF a.st \notin {"T", "F"} THEN a
        ELSE IF m.onS # <<>> /\ m.onF # <<>>
             THEN IF a.st = "T" THEN Cont(OnSuccess, m.onS[1], s, a) ELSE Cont(OnFail, m.onF[1], s, a)
        ELSE IF m.onS # <<>>
             THEN IF a.st = "T" THEN Cont(OnSuccess, m.onS[1], s, a) ELSE a
        ELSE IF m.onF # <<>>
             THEN IF a.st = "T" THEN a ELSE Cont(OnFail, m.onF[1], s, a)
        ELSE [a EXCEPT !.st = "T"]

\* inverted(*parsers)
inverted(m, s, p) == Not(Atomic(m.subs, s, p))

\* lookahead(*parsers)
lookahead(m, s, p) ==
    IF Len(m.subs) = 1 THEN Not(rollback_inline(p, Single(m.subs, s, p)))
    ELSE Not(rollback_inline(p, RunAll(m.subs, s, p, 1, <<>>)))

\* while <attempt>: pass   followed by   return True
Loop(subs, s, p, calls) ==
    LET a == Atomic(subs, s, p)
        c == calls \o a.calls
    IN  IF a.st = "T"
        THEN IF a.pos = p THEN [st |-> "H", pos |-> p, calls |-> c]
             ELSE Loop(subs, s, a.pos, c)
        ELSE IF a.st = "F" THEN [st |-> "T", pos |-> a.pos, calls |-> c]
        ELSE [st |-> a.st, pos |-> a.pos, calls |-> c]

\* repeat0(*parsers)
repeat0(m, s, p) == Loop(m.subs, s, p, <<>>)

\* repeat1(*parsers)
repeat1(m, s, p) ==
    LET a == Atomic(m.subs, s, p)
    IN  IF a.st = "T" THEN Loop(m.subs, s, a.pos, a.calls) ELSE a

\* the call parser(si)
Run(m, s, p) ==
    CASE m.kind = "literal"        -> literal(m, s, p)
      [] m.kind = "anycase"        -> anycase(m, s, p)
      [] m.kind = "take"           -> LET r == si_take(s, p, m.n) IN Ret(r.ok, r.pos)
      [] m.kind = "has_chars"      -> Ret(has_chars(s, p, m.n), p)
      [] m.kind = "ws0"            -> LET r == si_ws0(s, p) IN Ret(TRUE, r.pos)
      [] m.kind = "ws1"            -> LET r == si_ws1(s, p) IN Ret(r.ok, r.pos)
      [] m.kind = "is_eof"         -> LET r == si_is_eof(s, p) IN Ret(r.ok, r.pos)
      [] m.kind = "not_eof"        -> LET r == si_not_eof(s, p) IN Ret(r.ok, r.pos)
      [] m.kind = "seq"            -> seq(m, s, p)
      [] m.kind = "oneof"          -> oneof(m, s, p)
      [] m.kind = "optional_oneof" -> optional_oneof(m, s, p)
      [] m.kind = "optional"       -> optional(m, s, p)
      [] m.kind = "inverted"       -> inverted(m, s, p)
      [] m.kind = "lookahead"      -> lookahead(m, s, p)
      [] m.kind = "repeat0"        -> repeat0(m, s, p)
      [] m.kind = "repeat1"        -> repeat1(m, s, p)
      [] m.kind = "fatal"          -> fatal(m, s, p)

(***************************************************************************)
(* The matchers under test: every primitive, every combinator over the     *)
(* primitives, and every combinator with a combinator as an argument.      *)
(***************************************************************************)
Prim(kind, vals, n) == Mk(kind, vals, n, <<>>, <<>>, <<>>)

Comb(kind, subs) == Mk(kind, <<>>, 0, subs, <<>>, <<>>)

LitA == Prim("literal", << <<"a">> >>, 0)
TakeOne == Prim("take", <<>>, 1)
WsOne == Prim("ws1", <<>>, 0)

Leaves == {LitA, TakeOne, WsOne}

Prims ==
    Leaves \cup
    { Prim("literal", << <<"a", "a">> >>, 0),
      Prim("literal", << <<"a">>, <<"a", "a">> >>, 0),
      Prim("literal", << <<>> >>, 0),
      Prim("anycase", << <<"a">> >>, 0),
      Prim("anycase", << <<"a", "a">> >>, 0),
      Prim("anycase", << <<" ">>, <<"a">> >>, 0),
      Prim("take", <<>>, 2),
      Prim("has_chars", <<>>, 1),
      Prim("ws0", <<>>, 0),
      Prim("is_eof", <<>>, 0),
      Prim("not_eof", <<>>, 0) }

\* the factories that take one or more arguments, and those that need two
AnyArity == {"optional", "inverted", "lookahead", "repeat0", "repeat1"}
TwoOrMore == {"seq", "oneof", "optional_oneof"}

Conts == {<<>>, <<LitA>>, <<WsOne>>}

\* combinators over the leaves: these are also the arguments of Level2
Inner ==
    {Comb(k, <<x>>) : k \in AnyArity, x \in Leaves} \cup
    {Comb(k, <<x, y>>) : k \in AnyArity \cup TwoOrMore, x \in Leaves, y \in Leaves} \cup
    {Mk("optional", <<>>, 0, subs, cs, cf) :
        subs \in {<<LitA>>, <<LitA, WsOne>>}, cs \in Conts, cf \in Conts}

Level1 ==
    Inner \cup
    {Comb(k, <<x>>) : k \in AnyArity, x \in Prims} \cup
    {Comb(k, <<x, y, z>>) : k \in {"seq", "oneof"}, x \in Leaves, y \in Leaves, z \in Leaves}

Level2 ==
    {Comb(k, <<x>>) : k \in AnyArity, x \in Inner} \cup
    {Comb(k, <<x, y>>) : k \in AnyArity \cup TwoOrMore, x \in Inner, y \in {LitA, WsOne}} \cup
    {Comb(k, <<x, y>>) : k \in AnyArity \cup TwoOrMore, x \in {LitA, WsOne}, y \in Inner}

Parsers == Prims \cup Level1 \cup Level2

(***************************************************************************)
(* SpecComb: one invocation parser(si) of a matcher on a fresh cursor.     *)
(***************************************************************************)

InitComb ==
    /\ src \in Sources
    /\ pos \in 0..Len(src)
    /\ start = pos
    /\ parser \in Parsers
    /\ phase = "ready"
    /\ res = NoRes
    /\ cps = <<>>
    /\ exc = <<>>
    /\ last = NoLast
    /\ NoObjects

\* parser(si): the call returns, or it never does, or it raises
Invoke ==
    /\ phase = "ready"
    /\ LET r == Run(parser, src, pos)
       IN  /\ res' = r
           /\ pos' = r.pos
           /\ phase' = IF r.st = "H" THEN "hung"
                       ELSE IF r.st \in Errors THEN "raised" ELSE "done"
    /\ UNCHANGED <<objects, src, cps, exc, last, parser, start>>

NextComb == Invoke

SpecComb == InitComb /\ [][NextComb]_vars

(***************************************************************************)
(* SpecRepeat: one invocation of repeat0 / repeat1, one turn of its while  *)
(* loop per step.  phase: "ready" before the call, "looping" at the head   *)
(* of the while loop, "done" once the call has returned (res is what it    *)
(* returned), last.odd whether the loop has made an odd number of turns.   *)
(* A step is taken when the sub-matchers of the iteration have returned;   *)
(* an iteration that matches without moving the cursor leaves the cursor   *)
(* and the loop where they were.  The calls are run to their end: the      *)
(* specification is weakly fair.                                           *)
(***************************************************************************)
\* the sub-matchers of the loops: matchers that consume when they match,
\* and matchers that can match without consuming
Consuming == {LitA, TakeOne, WsOne, Comb("seq", <<LitA, WsOne>>)}

ZeroWidth ==
    { Prim("ws0", <<>>, 0),
      Prim("literal", << <<>> >>, 0),
      Comb("optional", <<LitA>>),
      Comb("optional_oneof", <<LitA, WsOne>>),
      Comb("lookahead", <<LitA>>),
      Comb("inverted", <<LitA>>) }

Repeats ==
    {Comb(k, <<x>>) : k \in {"repeat0", "repeat1"}, x \in Consuming \cup ZeroWidth} \cup
    {Comb(k, <<x, y>>) : k \in {"repeat0", "repeat1"}, x \in Consuming, y \in ZeroWidth} \cup
    {Comb(k, <<x, y>>) : k \in {"repeat0", "repeat1"}, x \in ZeroWidth, y \in ZeroWidth}

\* one iteration of the loop of m at offset p of s: the condition of its
\* while statement, tabulated over the loops, texts and offsets of the model
Iterations ==
    [m \in Repeats, s \in Sources, p \in 0..MaxLen |->
        IF p <= Len(s) THEN Atomic(m.subs, s, p) ELSE NoRes]

\* si = StringIterator(src)
InitRepeat ==
    /\ src \in Sources
    /\ pos = 0
    /\ start = 0
    /\ parser = LitA
    /\ phase = "ready"
    /\ res = NoRes
    /\ cps = <<>>
    /\ exc = <<>>
    /\ last = NoLast
    /\ NoObjects

\* si.take(1) before the call, to start the loop further on in the text
skip ==
    /\ phase = "ready"
    /\ pos < Len(src)
    /\ pos' = si_take(src, pos, 1).pos
    /\ start' = pos'
    /\ UNCHANGED <<objects, src, cps, exc, last, parser, phase, res>>

\* the call m(si) reaches its while loop: at once (repeat0), or after a
\* first iteration that matched (repeat1: if not <iteration>: return False)
repeat_enter ==
    /\ phase = "ready"
    /\ \E m \in Repeats :
        /\ parser' = m
        /\ IF m.kind = "repeat0"
           THEN /\ phase' = "looping"
                /\ UNCHANGED <<pos, res>>
           ELSE LET a == Iterations[m, src, pos]
                IN  /\ a.st \in {"T", "F"}
                    /\ pos' = a.pos
                    /\ phase' = IF a.st = "T" THEN "looping" ELSE "done"
                    /\ res' = IF a.st = "T" THEN res ELSE Ret(FALSE, a.pos)
    /\ last' = [op |-> "repeat", odd |-> FALSE]
    /\ UNCHANGED <<objects, src, cps, exc, start>>

\* while <iteration>: pass   then   return True
iterate ==
    /\ phase = "looping"
    /\ LET a == Iterations[parser, src, pos]
       IN  /\ a.st \in {"T", "F"}
           /\ pos' = a.pos
           /\ phase' = IF a.st = "T" THEN "looping" ELSE "done"
           /\ res' = IF a.st = "T" THEN res ELSE Ret(TRUE, a.pos)
    /\ last' = [last EXCEPT !.odd = ~@]
    /\ UNCHANGED <<objects, src, cps, exc, parser, start>>

NextRepeat ==
    \/ skip
    \/ repeat_enter
    \/ iterate

SpecRepeat == InitRepeat /\ [][NextRepeat]_vars /\ WF_vars(NextRepeat)

(***************************************************************************)
(* SpecRaise: one invocation of a combinator built over the leaves and the *)
(* matchers that raise a ParseError, as arguments and as continuations.    *)
(***************************************************************************)
Fatal(msg) == Prim("fatal", << <<msg>> >>, 0)

FatalX == Fatal("E:x")
FatalY == Fatal("E:y")

Raisers == {Fatal(e) : e \in Errors}

Args == Leaves \cup Raisers

Raises(subs) == \E i \in 1..Len(subs) : subs[i] \in Raisers

\* combinators over the leaves and the raising matchers
RaisingInner ==
    {Comb(k, <<x>>) : k \in AnyArity, x \in Raisers} \cup
    {c \in {Comb(k, <<x, y>>) : k \in AnyArity \cup TwoOrMore, x \in Args, y \in Args} :
        Raises(c.subs)} \cup
    {Mk("optional", <<>>, 0, subs, cs, cf) :
        subs \in {<<LitA>>, <<LitA, WsOne>>, <<LitA, FatalX>>},
        cs \in {<<>>, <<FatalX>>}, cf \in {<<>>, <<FatalY>>}}

RaisingParsers ==
    RaisingInner \cup
    {Comb(k, <<x>>) : k \in AnyArity, x \in RaisingInner} \cup
    {Comb(k, <<x, y>>) : k \in AnyArity \cup TwoOrMore, x \in RaisingInner, y \in {LitA}} \cup
    {Comb(k, <<x, y>>) : k \in AnyArity \cup TwoOrMore, x \in {LitA}, y \in RaisingInner}

InitRaise ==
    /\ src \in Sources
    /\ pos \in 0..Len(src)
    /\ start = pos
    /\ parser \in RaisingParsers
    /\ phase = "ready"
    /\ res = NoRes
    /\ cps = <<>>
    /\ exc = <<>>
    /\ last = NoLast
    /\ NoObjects

NextRaise == Invoke

SpecRaise == InitRaise /\ [][NextRaise]_vars

(***************************************************************************)
(* SpecCursor: a StringIterator driven through its public operations, one  *)
(* call per step.  last records the call: [op, arg, before, ok, text, hit] *)
(* = the method, its argument, the offset before it, what it returned      *)
(* ("T" a value other than None / False, "F" None or False, "E" it raised  *)
(* IndexError), the string the result stands for, and for oneof_literals   *)
(* the index of the returned pattern.  start holds Savepoint.pos once      *)
(* phase is "saved".                                                       *)
(***************************************************************************)
\* how far beyond either end of the text the offsets of the model may lie
Reach == 1

\* the int arguments of has_chars, peek and take
Amounts == -1..2

Chars == {<<c>> : c \in Alphabet}

Values == {<<>>, <<"a">>, <<"A">>, <<"a", "a">>, <<"a", " ">>}

ValueLists ==
    { << <<"a">>, <<"a", "a">> >>,
      << <<"a", "a">>, <<"a">> >>,
      << <<"A">>, <<" ">> >>,
      << <<>>, <<"a">> >>,
      << <<"a">>, <<>> >> }

Offsets == (0 - Reach)..(MaxLen + Reach)

Within(p) == p >= 0 - Reach /\ p <= Len(src) + Reach

Flag(b) == IF b THEN "T" ELSE "F"

\* StringIterator(src, starting_pos)
InitCursor ==
    /\ src \in Sources
    /\ pos \in Offsets /\ Within(pos)
    /\ start = pos
    /\ phase = "cursor"
    /\ last = NoLast
    /\ parser = LitA
    /\ res = NoRes
    /\ cps = <<>>
    /\ exc = <<>>
    /\ NoObjects

\* the call op(arg) returns (or raises) and leaves the cursor at offset to
Returned(op, arg, ok, text, hit, to) ==
    /\ Within(to)
    /\ pos' = to
    /\ last' = [op |-> op, arg |-> arg, before |-> pos, ok |-> ok,
                text |-> text, hit |-> hit]
    /\ UNCHANGED <<objects, src, cps, exc, parser, phase, start, res>>

\* si.has_chars(n)
call_has_chars ==
    \E n \in Amounts :
        Returned("has_chars", n, Flag(has_chars(src, pos, n)), <<>>, 0, pos)

\* si.peek(n)
call_peek ==
    \E n \in Amounts :
        LET r == si_peek(src, pos, n)
        IN  Returned("peek", n, Flag(r.ok), r.text, 0, pos)

\* si.take(n)
call_take ==
    \E n \in Amounts :
        LET r == si_take(src, pos, n)
        IN  Returned("take", n, Flag(r.ok), r.text, 0, r.pos)

\* si.character(v)
call_character ==
    \E v \in Chars :
        LET r == character(src, pos, v)
        IN  Returned("character", v, IF r.raised THEN "E" ELSE Flag(r.ok),
                     IF r.ok THEN v ELSE <<>>, 0, r.pos)

\* si.character_anycase(v)
call_character_anycase ==
    \E v \in Chars :
        LET r == character_anycase(src, pos, v)
        IN  Returned("character_anycase", v, IF r.raised THEN "E" ELSE Flag(r.ok),
                     IF r.ok THEN v ELSE <<>>, 0, r.pos)

\* si.literal(v)
call_literal ==
    \E v \in Values :
        LET r == si_literal(src, pos, v)
        IN  Returned("literal", v, Flag(r.ok), IF r.ok THEN v ELSE <<>>, 0, r.pos)

\* si.literal_anycase(v)
call_literal_anycase ==
    \E v \in Values :
        LET r == literal_anycase(src, pos, v)
        IN  Returned("literal_anycase", v, Flag(r.ok), IF r.ok THEN v ELSE <<>>, 0, r.pos)

\* si.oneof_literals(vs)
call_oneof_literals ==
    \E vs \in ValueLists :
        LET r == oneof_literals(src, pos, vs, 1)
        IN  Returned("oneof_literals", vs, Flag(r.hit # 0),
                     IF r.hit # 0 THEN vs[r.hit] ELSE <<>>, r.hit, r.pos)

\* si.oneof_literals_anycase(vs)
call_oneof_literals_anycase ==
    \E vs \in ValueLists :
        LET r == oneof_literals_anycase(src, pos, vs, 1)
        IN  Returned("oneof_literals_anycase", vs, Flag(r.hit # 0),
                     IF r.hit # 0 THEN vs[r.hit] ELSE <<>>, r.hit, r.pos)

\* literal(*vs)(si), two or more values
call_literal_factory ==
    \E vs \in ValueLists :
        LET r == literal(Prim("literal", vs, 0), src, pos)
        IN  Returned("literal()", vs, r.st, <<>>, 0, r.pos)

\* anycase(*vs)(si), two or more values
call_anycase_factory ==
    \E vs \in ValueLists :
        LET r == anycase(Prim("anycase", vs, 0), src, pos)
        IN  Returned("anycase()", vs, r.st, <<>>, 0, r.pos)

\* si.ws0()
call_ws0 ==
    LET r == si_ws0(src, pos)
    IN  Returned("ws0", 0, "T", Slice(src, pos, r.pos - pos), 0, r.pos)

\* si.ws1()
call_ws1 ==
    LET r == si_ws1(src, pos)
    IN  Returned("ws1", 0, Flag(r.ok), Slice(src, pos, r.pos - pos), 0, r.pos)

\* si.move_and_get_range(amount)
move_and_get_range ==
    \E amount \in {-1, 1} :
        Returned("move_and_get_range", amount, "T", <<>>, 0, pos + amount)

\* si.goto_and_get_range(to)
goto_and_get_range ==
    \E to \in Offsets :
        Returned("goto_and_get_range", to, "T", <<>>, 0, to)

\* sp = si.save()
save ==
    /\ start' = pos
    /\ phase' = "saved"
    /\ last' = [op |-> "save", arg |-> 0, before |-> pos, ok |-> "T",
                text |-> <<>>, hit |-> 0]
    /\ UNCHANGED <<objects, src, pos, cps, exc, parser, res>>

\* sp.rollback()  /  sp()
rollback ==
    /\ phase = "saved"
    /\ Returned("rollback", start, "T", <<>>, 0, start)

NextCursor ==
    \/ call_has_chars
    \/ call_peek
    \/ call_take
    \/ call_character
    \/ call_character_anycase
    \/ call_literal
    \/ call_literal_anycase
    \/ call_oneof_literals
    \/ call_oneof_literals_anycase
    \/ call_literal_factory
    \/ call_anycase_factory
    \/ call_ws0
    \/ call_ws1
    \/ move_and_get_range
    \/ goto_and_get_range
    \/ save
    \/ rollback

SpecCursor == InitCursor /\ [][NextCursor]_vars

(***************************************************************************)
(* SpecSavepoint: a cursor and one Savepoint sp at a time (start is sp.pos  *)
(* once phase is "saved"; si.save() makes a new one).  The value handed to *)
(* guard / inverted_guard / rollback_inline is any Python object; last.arg *)
(* is the object, last.text the object returned.                           *)
(***************************************************************************)
GuardValues == {"True", "False", "None", "''", "'a'", "0", "1"}

\* bool(v)
Truthy(v) == v \in {"True", "'a'", "1"}

\* the value v, computed with the cursor now at pos
Computed(v) == [st |-> Flag(Truthy(v)), pos |-> pos, calls |-> <<>>, val |-> v]

\* sp.guard(v)
call_guard ==
    /\ phase = "saved"
    /\ \E v \in GuardValues :
        LET r == guard(start, Computed(v))
        IN  Returned("guard", v, r.st, <<r.val>>, 0, r.pos)

\* sp.inverted_guard(v)
call_inverted_guard ==
    /\ phase = "saved"
    /\ \E v \in GuardValues :
        LET r == inverted_guard(start, Computed(v))
        IN  Returned("inverted_guard", v, r.st, <<r.val>>, 0, r.pos)

\* sp.rollback_inline(v)
call_rollback_inline ==
    /\ phase = "saved"
    /\ \E v \in GuardValues :
        LET r == rollback_inline(start, Computed(v))
        IN  Returned("rollback_inline", v, r.st, <<r.val>>, 0, r.pos)

NextSavepoint ==
    \/ call_has_chars
    \/ call_peek
    \/ call_take
    \/ move_and_get_range
    \/ save
    \/ rollback
    \/ call_guard
    \/ call_inverted_guard
    \/ call_rollback_inline

SpecSavepoint == InitCursor /\ [][NextSavepoint]_vars

(***************************************************************************)
(* The cursor / checkpoint machine (Spec): the body of a parser function.  *)
(*                                                                         *)
(* A Checkpoint object is a record [pos, parent, committed, notes, origin] *)
(* pos: the saved offset; parent: parent_checkpoint (an index into cps, 0  *)
(* for None); notes: its PosNotes, in the order they were added; origin:   *)
(* how it was made ("cursor": StringIterator.checkpoint / __call__, "sub":  *)
(* Checkpoint.sub_checkpoint / __call__).  A PosNote is [pos, msg].         *)
(*                                                                         *)
(* A checkpoint is used as a context manager: the with-statement enters it *)
(* where it is created and the scopes are left innermost first, so the     *)
(* open scopes form a stack, cps, outermost first.  The parser function    *)
(* uses a checkpoint only inside its with-block: a checkpoint whose scope  *)
(* was left is dropped from cps.                                           *)
(***************************************************************************)
MaxDepth == 3
MaxNotes == 2

\* the text being parsed
SpecSource == <<"\n", "c">>

\* msg = None
None == "<None>"

PosNote(p, msg) == [pos |-> p, msg |-> msg]

\* the notes a caller may hand to error(msg, notes)
SuppliedNotes == {<<>>, <<PosNote(0, "s1"), PosNote(1, "s2")>>}

Rev(q) == [i \in 1..Len(q) |-> q[Len(q) + 1 - i]]

Min(a, b) == IF a < b THEN a ELSE b

\* str.count("\n", 0, p)
CountNewlines(s, p) == Cardinality({i \in 1..p : s[i] = "\n"})

\* str.rfind("\n", 0, p): the 0-based index of the last newline before p, or -1
RfindNewline(s, p) ==
    LET hits == {i \in 1..p : s[i] = "\n"}
    IN  IF hits = {} THEN -1 ELSE (CHOOSE i \in hits : \A j \in hits : j <= i) - 1

\* the note counting its columns from 0
RenderNote_zero_based(s, p, msg) ==
    LET q == Min(p, Len(s))
    IN  [msg |-> msg, pos |-> q,
         line |-> CountNewlines(s, q) + 1,
         column |-> q - RfindNewline(s, q) - 1]

\* ParseError.append_pos_note: the note text, as the values it is formatted from
RenderNote(s, p, msg) ==
    LET q == Min(p, Len(s))
    IN  [msg |-> msg, pos |-> q,
         line |-> CountNewlines(s, q) + 1,
         column |-> q - RfindNewline(s, q)]

\* ParseError.append_existing_note over a list, in the list's order
RenderAll(s, notes) == [i \in 1..Len(notes) |-> RenderNote(s, notes[i].pos, notes[i].msg)]

\* ParseError.__init__: its own position note, then the given notes reversed
ParseError(s, p, notes) == <<RenderNote(s, p, None)>> \o RenderAll(s, Rev(notes))

\* add_notes_to_error without reversed()
add_notes_forward(c, trail) == trail \o RenderAll(src, cps[c].notes)

\* Checkpoint.add_notes_to_error
add_notes_to_error(c, trail) == trail \o RenderAll(src, Rev(cps[c].notes))

\* is_committed looking at the parent's own flag only
is_committed_shallow(c) ==
    cps[c].committed \/ (cps[c].parent # 0 /\ cps[cps[c].parent].committed)

\* is_committed inheriting the commit of any open checkpoint around it
is_committed_any_outer(c) ==
    cps[c].committed \/ \E k \in 1..(c - 1) : cps[k].committed

\* Checkpoint.is_committed
RECURSIVE is_committed(_)
is_committed(c) ==
    cps[c].committed \/ (cps[c].parent # 0 /\ is_committed(cps[c].parent))

\* rollback_if_uncommited rolling back whatever the commit state
rollback_always(c) == cps[c].pos

\* rollback_if_uncommited with the test inverted
rollback_if_committed(c) == IF is_committed(c) THEN cps[c].pos ELSE pos

\* Checkpoint.rollback_if_uncommited: the offset it leaves
rollback_if_uncommited(c) == IF ~is_committed(c) THEN cps[c].pos ELSE pos

\* __exit__ treating an error like a normal exit
exit_pos_same_for_errors(c, raising) == rollback_if_uncommited(c)

\* Checkpoint.__exit__: the offset it leaves (raising: exc is a ParseError)
exit_pos(c, raising) == IF ~raising THEN rollback_if_uncommited(c) ELSE cps[c].pos

\* Checkpoint.__init__: the notes a new checkpoint starts with
StartNotes(label) == IF label = None THEN <<>> ELSE <<PosNote(pos, label)>>

NoteLabels == {None, "ctx"}

RECURSIVE SumNotes(_)
SumNotes(i) == IF i = 0 THEN 0 ELSE Len(cps[i].notes) + SumNotes(i - 1)

\* the notes held by the open checkpoints
NotesHeld == SumNotes(Len(cps))

Top == Len(cps)

Init ==
    /\ src = SpecSource
    /\ pos = 0
    /\ cps = <<>>
    /\ exc = <<>>
    /\ last = NoLast
    /\ parser = LitA
    /\ phase = "idle"
    /\ start = 0
    /\ res = NoRes
    /\ NoObjects

Quiet == exc = <<>>

\* StringIterator.checkpoint nesting into the innermost open checkpoint
checkpoint_parent_innermost == Len(cps)

\* StringIterator.checkpoint: the parent_checkpoint it passes on (None)
checkpoint_parent == 0

\* Checkpoint.__init__ with parent_checkpoint = parent, entered by its with-statement
NewCheckpoint(parent, origin, label) ==
    /\ Len(cps) < MaxDepth
    /\ NotesHeld + Len(StartNotes(label)) <= MaxNotes
    /\ cps' = Append(cps, [pos |-> pos, parent |-> parent, committed |-> FALSE,
                           notes |-> StartNotes(label), origin |-> origin])
    /\ last' = NoLast
    /\ UNCHANGED <<objects, src, pos, exc, parser, phase, start, res>>

\* with si.checkpoint() as c:  /  with si() as c:
checkpoint ==
    /\ Quiet
    /\ NewCheckpoint(checkpoint_parent, "cursor", None)

\* with p.sub_checkpoint() as c:  /  with p() as c:
sub_checkpoint ==
    /\ Quiet
    /\ \E p \in 1..Len(cps) : NewCheckpoint(p, "sub", None)

\* with si.checkpoint(note=label) as c:  /  with si(note=label) as c:
checkpoint_note ==
    /\ Quiet
    /\ \E label \in NoteLabels : NewCheckpoint(checkpoint_parent, "cursor", label)

\* with c.sub_checkpoint(note=label) as c2:  /  with c(note=label) as c2:
\* (c the innermost open checkpoint)
sub_checkpoint_note ==
    /\ Quiet
    /\ cps # <<>>
    /\ \E label \in NoteLabels : NewCheckpoint(Top, "sub", label)

\* si.take(1)
take ==
    /\ Quiet
    /\ pos' = si_take(src, pos, 1).pos
    /\ last' = NoLast
    /\ UNCHANGED <<objects, src, cps, exc, parser, phase, start, res>>

SetCommitted(c, v) ==
    /\ cps' = [cps EXCEPT ![c].committed = v]
    /\ last' = NoLast
    /\ UNCHANGED <<objects, src, pos, exc, parser, phase, start, res>>

\* c.commit()
commit == Quiet /\ \E c \in 1..Len(cps) : SetCommitted(c, TRUE)

\* c.uncommit()
uncommit == Quiet /\ \E c \in 1..Len(cps) : SetCommitted(c, FALSE)

\* c.token(type) / c.result(data, type)
token == Quiet /\ \E c \in 1..Len(cps) : SetCommitted(c, TRUE)

\* c.fail(msg, notes) / c.fail_start(msg, notes) / c.propagate(failure)
fail == Quiet /\ \E c \in 1..Len(cps) : SetCommitted(c, FALSE)

\* c.note(msg)
note ==
    /\ Quiet
    /\ NotesHeld < MaxNotes
    /\ \E c \in 1..Len(cps) :
        /\ cps' = [cps EXCEPT ![c].notes = Append(@, PosNote(pos, "note"))]
        /\ last' = NoLast
    /\ UNCHANGED <<objects, src, pos, exc, parser, phase, start, res>>

\* raise c.error(msg, notes)  /  raise c.error_start(msg, notes), notes in given
\* (scopes: the checkpoints open when the error is raised, for the claims)
Raise(given) ==
    /\ Quiet
    /\ \E c \in 1..Len(cps), atStart \in BOOLEAN, notes \in given :
        LET at == IF atStart THEN cps[c].pos ELSE pos
            now == [cps EXCEPT ![c].committed = FALSE]
        IN  /\ cps' = now
            /\ exc' = <<[trail |-> ParseError(src, at, notes), at |-> at,
                         given |-> notes, scopes |-> now]>>
            /\ last' = NoLast
    /\ UNCHANGED <<objects, src, pos, parser, phase, start, res>>

\* raise c.error(msg)  /  raise c.error_start(msg)
error == Raise({<<>>})

\* raise c.error(msg, notes)  /  raise c.error_start(msg, notes)
error_notes == Raise(SuppliedNotes)

\* Checkpoint.__exit__(None, None, None): control leaves the innermost scope
\* (last keeps the checkpoint left and the offset before the exit)
exit ==
    /\ Quiet
    /\ cps # <<>>
    /\ pos' = exit_pos(Top, FALSE)
    /\ cps' = SubSeq(cps, 1, Len(cps) - 1)
    /\ last' = [op |-> "exit", c |-> Top, cp |-> cps[Top], before |-> pos]
    /\ UNCHANGED <<objects, src, exc, parser, phase, start, res>>

\* Checkpoint.__exit__(ParseError, exc, tb): the error leaves the innermost scope
unwind ==
    /\ ~Quiet
    /\ cps # <<>>
    /\ exc' = <<[exc[1] EXCEPT !.trail = add_notes_to_error(Top, @)]>>
    /\ pos' = exit_pos(Top, TRUE)
    /\ cps' = SubSeq(cps, 1, Len(cps) - 1)
    /\ last' = [op |-> "unwind", c |-> Top, cp |-> cps[Top], before |-> pos]
    /\ UNCHANGED <<objects, src, parser, phase, start, res>>

\* except ParseError: a caller at the present nesting level catches the error
catch ==
    /\ ~Quiet
    /\ exc' = <<>>
    /\ last' = NoLast
    /\ UNCHANGED <<objects, src, pos, cps, parser, phase, start, res>>

Next ==
    \/ checkpoint
    \/ sub_checkpoint
    \/ take
    \/ commit
    \/ uncommit
    \/ token
    \/ fail
    \/ error
    \/ exit
    \/ unwind
    \/ catch

Spec == Init /\ [][Next]_vars

(***************************************************************************)
(* SpecScopes: the same parser body, remembering what the scope exits      *)
(* kept.  held is <<>>, or <<k>> when the latest normal scope exit kept a  *)
(* consumed range: k = [level, from, to], the nesting level of the         *)
(* checkpoint left and the range it kept.                                  *)
(***************************************************************************)
\* Checkpoint.__exit__(None, None, None): control leaves the innermost scope
\* (last.kept: the range kept by the scope exit before this one)
scope_exit ==
    /\ Quiet
    /\ cps # <<>>
    /\ pos' = exit_pos(Top, FALSE)
    /\ cps' = SubSeq(cps, 1, Len(cps) - 1)
    /\ last' = [op |-> "exit", c |-> Top, cp |-> cps[Top], before |-> pos,
                kept |-> held]
    /\ held' = IF pos' > cps[Top].pos
               THEN <<[level |-> Top, from |-> cps[Top].pos, to |-> pos']>>
               ELSE <<>>
    /\ UNCHANGED <<src, exc, parser, phase, start, res, lists, toks>>

\* Checkpoint.__exit__(ParseError, exc, tb): the error leaves the innermost scope
scope_unwind ==
    /\ ~Quiet
    /\ cps # <<>>
    /\ exc' = <<[exc[1] EXCEPT !.trail = add_notes_to_error(Top, @)]>>
    /\ pos' = exit_pos(Top, TRUE)
    /\ cps' = SubSeq(cps, 1, Len(cps) - 1)
    /\ last' = [op |-> "unwind", c |-> Top, cp |-> cps[Top], before |-> pos,
                kept |-> held]
    /\ held' = <<>>
    /\ UNCHANGED <<src, parser, phase, start, res, lists, toks>>

NextScopes ==
    \/ checkpoint
    \/ sub_checkpoint
    \/ take
    \/ commit
    \/ uncommit
    \/ error
    \/ scope_exit
    \/ scope_unwind
    \/ catch

SpecScopes == Init /\ [][NextScopes]_vars

\* the same parser body, now recording notes and never committing
NextNotes ==
    \/ checkpoint_note
    \/ sub_checkpoint_note
    \/ take
    \/ note
    \/ error_notes
    \/ exit
    \/ unwind
    \/ catch

SpecNotes == Init /\ [][NextNotes]_vars

(***************************************************************************)
(* SpecLoop: the generators StringIterator.optional() and loop(items)      *)
(* driven by a for statement.  held is <<g>> while the generator object    *)
(* of the loop is alive (suspended at its yield), g = [kind, left]: the    *)
(* helper and the number of items not yet yielded; start is revert.pos,    *)
(* the offset saved when the generator was started.  phase: "idle" before  *)
(* the first loop, "body" inside a loop body, "after" once the for         *)
(* statement was left.                                                     *)
(*                                                                         *)
(* A for statement that is left by break or by an exception does not       *)
(* resume its generator: the generator stays suspended until it is         *)
(* finalized, and finalizing calls close(), which raises GeneratorExit at  *)
(* the yield.  When that happens is up to the interpreter: at once when    *)
(* the last reference goes (reference counting), or at some later point.   *)
(***************************************************************************)
MaxItems == 2

Helpers == {[kind |-> "optional", n |-> 1]} \cup {[kind |-> "loop", n |-> n] : n \in 0..MaxItems}

InitLoop ==
    /\ src \in Sources
    /\ pos \in 0..Len(src)
    /\ start = pos
    /\ phase = "idle"
    /\ cps = <<>>
    /\ exc = <<>>
    /\ last = NoLast
    /\ parser = LitA
    /\ res = NoRes
    /\ NoObjects

Step(op, h) == [op |-> op, kind |-> h.kind, before |-> pos, saved |-> start]

\* for item in si.optional():  /  for item in si.loop(items):
\* the first next() runs revert = self.save() and yields the first item
loop_start ==
    /\ phase \in {"idle", "after"}
    /\ held = <<>>
    /\ \E h \in Helpers :
        /\ start' = pos
        /\ held' = IF h.n = 0 THEN <<>> ELSE <<[kind |-> h.kind, left |-> h.n - 1]>>
        /\ phase' = IF h.n = 0 THEN "after" ELSE "body"
        /\ last' = [Step("start", h) EXCEPT !.saved = pos]
    /\ UNCHANGED <<src, pos, cps, exc, parser, res, lists, toks>>

\* the body ends with continue (or runs to its end): next() resumes the
\* generator after the yield; revert(); then the next item or StopIteration
body_continue ==
    /\ phase = "body"
    /\ pos' = start
    /\ held' = IF held[1].left > 0 THEN <<[held[1] EXCEPT !.left = @ - 1]>> ELSE <<>>
    /\ phase' = IF held[1].left > 0 THEN "body" ELSE "after"
    /\ last' = Step("continue", held[1])
    /\ UNCHANGED <<src, cps, exc, parser, start, res, lists, toks>>

\* GeneratorExit raised at the yield: except: revert(); raise
closed_pos == start

\* the for statement is left with the generator suspended; it is finalized
\* now or it stays alive
Leave(op) ==
    /\ phase = "body"
    /\ \E now \in BOOLEAN :
        /\ pos' = IF now THEN closed_pos ELSE pos
        /\ held' = IF now THEN <<>> ELSE held
        /\ last' = Step(op, held[1])
    /\ phase' = "after"
    /\ UNCHANGED <<src, cps, exc, parser, start, res, lists, toks>>

\* the body ends with break
body_break == Leave("break")

\* the body raises an exception, which leaves the for statement
body_raise == Leave("raise")

\* the suspended generator of a loop that was left is finalized
generator_close ==
    /\ phase = "after"
    /\ held # <<>>
    /\ pos' = closed_pos
    /\ held' = <<>>
    /\ last' = Step("close", held[1])
    /\ UNCHANGED <<src, cps, exc, parser, phase, start, res, lists, toks>>

NextLoop ==
    \/ loop_start
    \/ take
    \/ body_continue
    \/ body_break
    \/ body_raise
    \/ generator_close

SpecLoop == InitLoop /\ [][NextLoop]_vars

(***************************************************************************)
(* SpecPosNote: ParseError.append_pos_note as a pure function.  Init draws *)
(* the source text of the error and the position of the note (start), the  *)
(* action appends the note; last.note is the note it added.                *)
(***************************************************************************)
MaxText == 5

\* the msg arguments of append_pos_note, fail and fail_start
Msgs == {None, "m"}

NoteAlphabet == {"a", "\n", "\r"}

NoteSources == UNION {[1..n -> NoteAlphabet] : n \in 0..MaxText}

InitPosNote ==
    /\ src \in NoteSources
    /\ start \in 0..(Len(src) + 1)
    /\ pos = 0
    /\ cps = <<>>
    /\ exc = <<>>
    /\ last = NoLast
    /\ parser = LitA
    /\ phase = "idle"
    /\ res = NoRes
    /\ NoObjects

\* error.append_pos_note(start, msg)
append_pos_note ==
    /\ phase = "idle"
    /\ \E msg \in Msgs :
        last' = [op |-> "append_pos_note", msg |-> msg, note |-> RenderNote(src, start, msg)]
    /\ phase' = "noted"
    /\ UNCHANGED <<objects, src, pos, cps, exc, parser, start, res>>

NextPosNote == append_pos_note

SpecPosNote == InitPosNote /\ [][NextPosNote]_vars

(***************************************************************************)
(* SpecFail: the same parser body returning ParseFailure objects.  held is *)
(* <<>> or <<h>>, h the failure now held by the caller:                    *)
(*   h.f      the ParseFailure object (src, pos, msg, notes);              *)
(*   h.own, h.given   the notes of the checkpoint that made it, at that    *)
(*            time, and the notes handed to fail() (for the claims);       *)
(*   h.path   the nesting levels of the checkpoints that made and then     *)
(*            propagated it; h.via the notes each propagating checkpoint   *)
(*            held at that time (for the claims).                          *)
(***************************************************************************)
\* ParseFailure.__init__
ParseFailure(s, p, msg, notes) == [src |-> s, pos |-> p, msg |-> msg, notes |-> notes]

\* prepend_notes putting the given notes after those already there
prepend_notes_behind(f, notes) == [f EXCEPT !.notes = @ \o notes]

\* ParseFailure.prepend_notes: self.notes = notes + self.notes; return self
prepend_notes(f, notes) == [f EXCEPT !.notes = notes \o @]

\* what Checkpoint.fail (at = si.pos) / fail_start (at = self.pos) returns
fail_value(c, at, msg, notes) ==
    prepend_notes(ParseFailure(src, at, msg, notes), cps[c].notes)

\* propagate building the note list from the checkpoint's notes alone
propagate_value_own_notes(c, f) == [f EXCEPT !.notes = cps[c].notes]

\* what Checkpoint.propagate(failure) returns: the failure itself, merged
propagate_value(c, f) == prepend_notes(f, cps[c].notes)

\* return c.fail(msg, notes)  /  return c.fail_start(msg, notes)
\* (c the innermost open checkpoint)
fail_returned ==
    /\ Quiet
    /\ \E c \in {Top} \ {0}, atStart \in BOOLEAN, msg \in Msgs, notes \in SuppliedNotes :
        LET at == IF atStart THEN cps[c].pos ELSE pos
        IN  /\ cps' = [cps EXCEPT ![c].committed = FALSE]
            /\ held' = <<[f |-> fail_value(c, at, msg, notes), own |-> cps[c].notes,
                          given |-> notes, path |-> <<c>>, via |-> <<>>]>>
            /\ last' = [op |-> "fail", c |-> c, cp |-> cps[c], before |-> pos,
                        atStart |-> atStart, msg |-> msg, given |-> notes]
    /\ UNCHANGED <<src, pos, exc, parser, phase, start, res, lists, toks>>

\* return c.propagate(r), r the failure held: c is the innermost open
\* checkpoint, and the scope that handed r over has been left
propagate ==
    /\ Quiet
    /\ held # <<>>
    /\ \E c \in {Top} \ {0} :
        /\ c < held[1].path[Len(held[1].path)]
        /\ cps' = [cps EXCEPT ![c].committed = FALSE]
        /\ held' = <<[held[1] EXCEPT !.f = propagate_value(c, @),
                                      !.path = Append(@, c),
                                      !.via = Append(@, cps[c].notes)]>>
        /\ last' = [op |-> "propagate", c |-> c, cp |-> cps[c], before |-> pos,
                    was |-> held[1].f]
    /\ UNCHANGED <<src, pos, exc, parser, phase, start, res, lists, toks>>

\* no failure has been returned yet: the parser body is still matching
Matching == held = <<>>

\* a parser body that matches until it fails; the failure then travels
\* outwards through return statements, each level propagating it or not
NextFail ==
    \/ Matching /\ checkpoint_note
    \/ Matching /\ take
    \/ Matching /\ note
    \/ Matching /\ commit
    \/ Matching /\ fail_returned
    \/ propagate
    \/ exit

SpecFail == Init /\ [][NextFail]_vars

(***************************************************************************)
(* SpecConvert: the parser body converting the failure it was returned     *)
(* into a ParseError.                                                      *)
(***************************************************************************)
\* ParseFailure.error()
failure_error_value(f) == ParseError(f.src, f.pos, f.notes)

\* e = r.error(), r the failure held
failure_error ==
    /\ Quiet
    /\ held # <<>>
    /\ exc' = <<[trail |-> failure_error_value(held[1].f), at |-> held[1].f.pos,
                 given |-> held[1].f.notes, scopes |-> cps]>>
    /\ last' = [op |-> "error()", c |-> Top, before |-> pos,
                cp |-> IF cps = <<>> THEN NoLast.cp ELSE cps[Top]]
    /\ UNCHANGED <<objects, src, pos, cps, parser, phase, start, res>>

NextConvert ==
    \/ Matching /\ checkpoint_note
    \/ Matching /\ take
    \/ Matching /\ note
    \/ Matching /\ fail_returned
    \/ failure_error

SpecConvert == Init /\ [][NextConvert]_vars

(***************************************************************************)
(* SpecUnwind: the parser body raising a ParseError inside its open        *)
(* checkpoints, built directly (c.error, c.error_start) or from a failure  *)
(* (c.fail(...).error(), c.propagate(r).error(), r.error()), and the error *)
(* then leaving the scopes innermost first.                                *)
(***************************************************************************)
NextUnwind ==
    \/ Matching /\ checkpoint_note
    \/ Matching /\ take
    \/ Matching /\ note
    \/ Matching /\ error_notes
    \/ Matching /\ fail_returned
    \/ propagate
    \/ exit
    \/ failure_error
    \/ unwind

SpecUnwind == Init /\ [][NextUnwind]_vars

(***************************************************************************)
(* SpecTokens: a parser body building Token / Result objects.  A list of   *)
(* subtokens is an object of its own (lists[id], holding token ids): a     *)
(* checkpoint and the tokens made from it refer to a list by its id.  The  *)
(* checkpoints of this specification carry, besides the fields of          *)
(* NewCheckpoint, subtokens (a list id) and, for the claims, passed (every *)
(* token handed to subtoken() so far) and kept (those handed over since    *)
(* the checkpoint was made or last restarted).                             *)
(***************************************************************************)
MaxToks == 3
MaxLists == 2
MaxSubs == 2

\* the token_type arguments
Types == {None, "t"}

\* a Token carries no data
NoData == "<no data>"

\* Token.__init__(token_type, pos, subtokens): subs is the list passed in
Token(type, range, subs) ==
    [token_type |-> type, pos |-> range, subtokens |-> subs, data |-> NoData]

\* Result.__init__(data, token_type, pos, subtokens)
Result(data, type, range, subs) ==
    [token_type |-> type, pos |-> range, subtokens |-> subs, data |-> data]

\* Token.with_type / Result.with_type
with_type_value(tk, type) ==
    IF tk.data = NoData THEN Token(type, tk.pos, tk.subtokens)
    ELSE Result(tk.data, type, tk.pos, tk.subtokens)

\* get_range measured from the cursor alone
get_range_from_cursor(c) == <<pos, pos>>

\* Checkpoint.get_range
get_range(c) == <<cps[c].pos, pos>>

\* the text being parsed
TokenSource == <<"c">>

\* si = StringIterator(TokenSource)
InitTokens ==
    /\ src = TokenSource
    /\ pos = 0
    /\ cps = <<>>
    /\ exc = <<>>
    /\ last = NoLast
    /\ parser = LitA
    /\ phase = "idle"
    /\ start = 0
    /\ res = NoRes
    /\ NoObjects

\* with si() as c:   (Checkpoint.__init__ makes self.subtokens = []); the
\* body under test has the one with-scope
checkpoint_tokens ==
    /\ cps = <<>>
    /\ Len(lists) < MaxLists
    /\ lists' = Append(lists, <<>>)
    /\ cps' = Append(cps, [pos |-> pos, parent |-> checkpoint_parent,
                           committed |-> FALSE, notes |-> <<>>, origin |-> "cursor",
                           subtokens |-> Len(lists) + 1, passed |-> <<>>, kept |-> <<>>])
    /\ last' = NoLast
    /\ UNCHANGED <<src, pos, exc, parser, phase, start, res, toks, held>>

\* c.subtoken(t)
subtoken ==
    /\ \E c \in 1..Len(cps), tk \in 1..Len(toks) :
        /\ Len(lists[cps[c].subtokens]) < MaxSubs
        /\ lists' = [lists EXCEPT ![cps[c].subtokens] = Append(@, tk)]
        /\ cps' = [cps EXCEPT ![c].passed = Append(@, tk), ![c].kept = Append(@, tk)]
        /\ last' = [op |-> "subtoken", c |-> c, from |-> cps[c].pos, before |-> pos,
                    type |-> None, data |-> NoData, ret |-> tk]
    /\ UNCHANGED <<src, pos, exc, parser, phase, start, res, toks, held>>

\* a call on checkpoint c that returns a new Token / Result object
Made(op, c, type, data, commits) ==
    /\ Len(toks) < MaxToks
    /\ toks' = Append(toks, IF data = NoData
                            THEN Token(type, get_range(c), cps[c].subtokens)
                            ELSE Result(data, type, get_range(c), cps[c].subtokens))
    /\ cps' = IF commits THEN [cps EXCEPT ![c].committed = TRUE] ELSE cps
    /\ last' = [op |-> op, c |-> c, from |-> cps[c].pos, before |-> pos,
                type |-> type, data |-> data, ret |-> Len(toks) + 1]
    /\ UNCHANGED <<src, pos, exc, parser, phase, start, res, lists, held>>

\* c.token(type)
token_returned == \E c \in 1..Len(cps), type \in Types : Made("token", c, type, NoData, TRUE)

\* c.result(data, type)
result == \E c \in 1..Len(cps) : Made("result", c, "t", "d", TRUE)

\* c.get_token(type)
get_token == \E c \in 1..Len(cps) : Made("get_token", c, None, NoData, FALSE)

\* c.get_result(data, type)
get_result == \E c \in 1..Len(cps) : Made("get_result", c, None, "d", FALSE)

\* t.with_type(type)
with_type ==
    /\ Len(toks) < MaxToks
    /\ \E tk \in 1..Len(toks), type \in {"t"} :
        /\ toks' = Append(toks, with_type_value(toks[tk], type))
        /\ last' = [op |-> "with_type", c |-> 0, from |-> 0, before |-> pos,
                    type |-> type, data |-> toks[tk].data, ret |-> Len(toks) + 1]
    /\ UNCHANGED <<src, pos, cps, exc, parser, phase, start, res, lists, held>>

\* c.restart()   (no starting note was given to these checkpoints)
restart ==
    /\ Len(lists) < MaxLists
    /\ \E c \in 1..Len(cps) :
        /\ pos' = cps[c].pos
        /\ lists' = Append(lists, <<>>)
        /\ cps' = [cps EXCEPT ![c].subtokens = Len(lists) + 1, ![c].kept = <<>>,
                               ![c].notes = <<>>, ![c].committed = FALSE]
        /\ last' = [op |-> "restart", c |-> c, from |-> cps[c].pos, before |-> pos,
                    type |-> None, data |-> NoData, ret |-> 0]
    /\ UNCHANGED <<src, exc, parser, phase, start, res, toks, held>>

\* a parser body that collects subtokens and returns its Token / Result
NextTokens ==
    \/ checkpoint_tokens
    \/ take
    \/ subtoken
    \/ token_returned
    \/ result
    \/ restart

SpecTokens == InitTokens /\ [][NextTokens]_vars

\* the same, a caller also looking at tokens before the commit and retyping
\* the tokens it was handed
NextTokenCopies ==
    \/ NextTokens
    \/ get_token
    \/ get_result
    \/ with_type

SpecTokenCopies == InitTokens /\ [][NextTokenCopies]_vars

(***************************************************************************)
(* SpecRanges: a parser body that makes tokens while it moves the cursor   *)
(* with a Savepoint and with the checkpoint itself.                        *)
(***************************************************************************)
\* c.rollback()
checkpoint_rollback ==
    /\ \E c \in 1..Len(cps) :
        /\ pos' = cps[c].pos
        /\ last' = [op |-> "c.rollback", c |-> c, from |-> cps[c].pos, before |-> pos,
                    type |-> None, data |-> NoData, ret |-> 0]
    /\ UNCHANGED <<objects, src, cps, exc, parser, phase, start, res>>

NextRanges ==
    \/ take
    \/ save
    \/ rollback
    \/ checkpoint_tokens
    \/ checkpoint_rollback
    \/ token_returned
    \/ result
    \/ get_token
    \/ get_result

SpecRanges == InitTokens /\ [][NextRanges]_vars

(***************************************************************************)
(* SpecEq: Token.__eq__ as a pure function.  Init draws the token self     *)
(* (toks[1]) over two subtoken lists, the action compares it with another  *)
(* object: a Token / Result, a tuple, or any other value.  An object is    *)
(* handed over as [is, v]: its class and its value, held in the fields of  *)
(* a token record (a tuple in pos, any other value in token_type).         *)
(***************************************************************************)
\* pos = None
NoRange == <<>>

Ranges == {<<a, b>> : a \in 0..MaxLen, b \in 0..MaxLen} \cup {NoRange}

\* the two lists of subtokens: an empty one, and one holding toks[1]
EqLists == << <<>>, <<1>> >>

Tokens ==
    {Token(ty, r, l) : ty \in Types, r \in Ranges, l \in 1..Len(EqLists)} \cup
    {Result("d", ty, r, l) : ty \in Types, r \in Ranges, l \in 1..Len(EqLists)}

AsToken(tk) == [is |-> "Token", v |-> tk]
AsTuple(r) == [is |-> "tuple", v |-> Token(None, r, 1)]
AsOther(x) == [is |-> "other", v |-> Token(x, NoRange, 1)]

Others ==
    {AsToken(tk) : tk \in Tokens} \cup {AsTuple(r) : r \in Ranges} \cup
    {AsOther(ty) : ty \in Types}

\* equality of all the attributes, as a dataclass would compare
Token_eq_structural(self, other) ==
    IF other.is = "tuple" THEN self.pos = other.v.pos
    ELSE IF other.is = "Token"
         THEN /\ self.token_type = other.v.token_type
              /\ self.pos = other.v.pos
              /\ EqLists[self.subtokens] = EqLists[other.v.subtokens]
              /\ self.data = other.v.data
    ELSE self.token_type = other.v.token_type

\* Token.__eq__(self, other)
Token_eq(self, other) ==
    IF other.is = "tuple" THEN self.pos = other.v.pos
    ELSE IF other.is = "Token"
         THEN self.token_type = other.v.token_type /\ self.pos = other.v.pos
    ELSE self.token_type = other.v.token_type

InitEq ==
    /\ toks \in {<<tk>> : tk \in Tokens}
    /\ lists = EqLists
    /\ held = <<>>
    /\ src = <<>>
    /\ pos = 0
    /\ cps = <<>>
    /\ exc = <<>>
    /\ last = NoLast
    /\ parser = LitA
    /\ phase = "idle"
    /\ start = 0
    /\ res = NoRes

\* toks[1] == other
eq ==
    /\ phase = "idle"
    /\ \E other \in Others :
        last' = [op |-> "eq", other |-> other, ret |-> Token_eq(toks[1], other)]
    /\ phase' = "compared"
    /\ UNCHANGED <<src, pos, cps, exc, parser, start, res, lists, toks, held>>

NextEq == eq

SpecEq == InitEq /\ [][NextEq]_vars

(***************************************************************************)
(* SpecAlias: ParseFailure objects and the list objects holding their      *)
(* notes.  lists is the heap of note lists, by identity: lists[id] is the  *)
(* content of list id.  Four lists exist from the start: the two created   *)
(* once, when the functions were defined, as the defaults of the notes     *)
(* parameters of ParseFailure.__init__ and of Checkpoint.fail; a list the  *)
(* caller holds; and c.notes of the open checkpoint c.  held are the       *)
(* failures made so far; the notes field of a failure is the id of the     *)
(* list object it refers to.                                               *)
(***************************************************************************)
MaxFailures == 2

\* notes=[] in the signature of ParseFailure.__init__: one list object
DefaultNotes == 1
\* notes=[] in the signature of Checkpoint.fail: another one
FailDefault == 2
\* a list the caller made and may pass as notes
CallerNotes == 3
\* c.notes
CheckpointNotes == 4

Preallocated == 4

InitAlias ==
    /\ src = SpecSource
    /\ pos = 0
    /\ cps = <<>>
    /\ exc = <<>>
    /\ last = NoLast
    /\ parser = LitA
    /\ phase = "idle"
    /\ start = 0
    /\ res = NoRes
    /\ toks = <<>>
    /\ held = <<>>
    /\ \E given \in SuppliedNotes, own \in {<<>>, <<PosNote(0, "ctx")>>} :
          lists = << <<>>, <<>>, given, own >>

\* what an operation on failure i saw: the heap before it
Did(op, i, arg) == [op |-> op, self |-> i, arg |-> arg, heap |-> lists]

\* f = ParseFailure(src, pos)  /  f = ParseFailure(src, pos, None, given)
new_failure ==
    /\ Len(held) < MaxFailures
    /\ \E arg \in {DefaultNotes, CallerNotes} :
        /\ held' = Append(held, ParseFailure(src, pos, None, arg))
        /\ last' = Did("new", Len(held) + 1, arg)
    /\ UNCHANGED <<src, pos, cps, exc, parser, phase, start, res, lists, toks>>

\* self.notes = notes + self.notes: a new list object
prepend_notes_object(i, arg) ==
    /\ Len(lists) < Preallocated + MaxLists
    /\ lists' = Append(lists, lists[arg] \o lists[held[i].notes])
    /\ held' = [held EXCEPT ![i].notes = Len(lists) + 1]

\* f = c.fail(msg)  /  f = c.fail(msg, given):
\* ParseFailure(src, pos, msg, notes).prepend_notes(self.notes)
checkpoint_fail ==
    /\ Len(held) < MaxFailures
    /\ Len(lists) < Preallocated + MaxLists
    /\ \E arg \in {FailDefault, CallerNotes} :
        /\ lists' = Append(lists, lists[CheckpointNotes] \o lists[arg])
        /\ held' = Append(held, ParseFailure(src, pos, None, Len(lists) + 1))
        /\ last' = Did("fail", Len(held) + 1, arg)
    /\ UNCHANGED <<src, pos, cps, exc, parser, phase, start, res, toks>>

\* f.prepend_notes(given)
call_prepend_notes ==
    /\ \E i \in 1..Len(held) :
        /\ prepend_notes_object(i, CallerNotes)
        /\ last' = Did("prepend_notes", i, CallerNotes)
    /\ UNCHANGED <<src, pos, cps, exc, parser, phase, start, res, toks>>

\* c.propagate(f): failure.prepend_notes(self.notes)
call_propagate ==
    /\ \E i \in 1..Len(held) :
        /\ prepend_notes_object(i, CheckpointNotes)
        /\ last' = Did("propagate", i, CheckpointNotes)
    /\ UNCHANGED <<src, pos, cps, exc, parser, phase, start, res, toks>>

\* self.notes.append(note): the list object self.notes refers to grows
append_in_place(op, i, n) ==
    /\ Len(lists[held[i].notes]) <= MaxNotes
    /\ lists' = [lists EXCEPT ![held[i].notes] = Append(@, n)]
    /\ last' = Did(op, i, held[i].notes)
    /\ UNCHANGED <<src, pos, cps, exc, parser, phase, start, res, toks, held>>

\* f.prepend_pos_note(pos, "p")
call_prepend_pos_note ==
    \E i \in 1..Len(held) : append_in_place("prepend_pos_note", i, PosNote(pos, "p"))

\* f.prepend_existing_note(PosNote(pos, "e"))
call_prepend_existing_note ==
    \E i \in 1..Len(held) : append_in_place("prepend_existing_note", i, PosNote(pos, "e"))

NextAlias ==
    \/ new_failure
    \/ checkpoint_fail
    \/ call_prepend_notes
    \/ call_propagate
    \/ call_prepend_pos_note
    \/ call_prepend_existing_note

SpecAlias == InitAlias /\ [][NextAlias]_vars

(***************************************************************************)
(* Claims about checkpoints (checked under Spec).                          *)
(***************************************************************************)
\* the checkpoints on the parent chain that starts at p (p = 0: none)
RECURSIVE ParentChain(_)
ParentChain(p) == IF p = 0 THEN {} ELSE {p} \cup ParentChain(cps[p].parent)

\* some checkpoint on the parent chain starting at p has its own flag set
AncestorCommitted(p) == \E a \in ParentChain(p) : cps[a].committed

\* control has just left a scope normally / a ParseError has just left a scope
LeftNormally == last.op = "exit"
LeftByError == last.op = "unwind"

\* C5: a checkpoint whose own committed flag is set when control leaves its
\* scope normally keeps the cursor where it was: the exit does not move it.
C5_CommittedExitKeepsOffset ==
    (LeftNormally /\ last.cp.committed) => pos = last.before

\* a committed checkpoint was left with a consumed range, and the range is kept
C5_Witness ==
    /\ LeftNormally
    /\ last.cp.committed
    /\ last.before > last.cp.pos
    /\ pos = last.before

\* C6 as claimed: a checkpoint whose own flag is clear always restores its
\* starting offset when its scope is left, sub-checkpoints included.
C6_Original ==
    ((LeftNormally \/ LeftByError) /\ ~last.cp.committed) => pos = last.cp.pos

\* C6, amended: a checkpoint whose own flag is clear and none of whose
\* ancestors has its flag set restores its starting offset when its scope is
\* left, normally or by an error, whether made by the cursor or as a
\* sub-checkpoint.
C6_UncommittedExitRestores ==
    ((LeftNormally \/ LeftByError) /\ ~last.cp.committed
        /\ ~AncestorCommitted(last.cp.parent)) => pos = last.cp.pos

\* an uncommitted sub-checkpoint under uncommitted ancestors was left normally
\* after consuming, and the cursor is back at its start
C6_Witness ==
    /\ LeftNormally
    /\ last.cp.origin = "sub"
    /\ ~last.cp.committed
    /\ ~AncestorCommitted(last.cp.parent)
    /\ last.before > last.cp.pos
    /\ pos = last.cp.pos

\* C7: is_committed() holds iff the own flag or the flag of a checkpoint on the
\* parent chain is set at that moment, and a sub-checkpoint's normal exit skips
\* the rollback exactly when it holds at the exit.
C7_CommitInheritance ==
    /\ \A c \in 1..Len(cps) :
          is_committed(c) <=> (cps[c].committed \/ AncestorCommitted(cps[c].parent))
    /\ (LeftNormally /\ last.cp.origin = "sub") =>
          pos = IF last.cp.committed \/ AncestorCommitted(last.cp.parent)
                THEN last.before ELSE last.cp.pos

\* a sub-checkpoint and its parent never committed, its grandparent did: the
\* exit kept the consumed range
C7_Witness ==
    /\ LeftNormally
    /\ ~last.cp.committed
    /\ last.cp.parent # 0
    /\ ~cps[last.cp.parent].committed
    /\ cps[last.cp.parent].parent # 0
    /\ cps[cps[last.cp.parent].parent].committed
    /\ last.before > last.cp.pos
    /\ pos = last.before

\* C8: a checkpoint made by the cursor has no parent, even inside a committed
\* scope: its effective commit state is its own flag, its normal exit rolls
\* back unless it committed itself, and committing or uncommitting it leaves
\* the effective commit state of every checkpoint not descended from it alone.
C8_Step ==
    /\ \A c \in 1..Len(cps') :
          cps'[c].origin = "cursor" =>
              /\ cps'[c].parent = 0
              /\ is_committed(c)' = cps'[c].committed
    /\ (last'.op = "exit" /\ last'.cp.origin = "cursor") =>
          pos' = IF last'.cp.committed THEN last'.before ELSE last'.cp.pos
    /\ \A c \in 1..Len(cps) :
          (Len(cps') = Len(cps) /\ cps[c].origin = "cursor"
              /\ cps'[c].committed # cps[c].committed) =>
             \A d \in 1..Len(cps) :
                 (d # c /\ c \notin ParentChain(cps[d].parent)) =>
                     is_committed(d)' = is_committed(d)

C8_CursorCheckpointIndependent == [][C8_Step]_vars

\* a cursor checkpoint opened inside a committed scope was left uncommitted
\* after consuming: it rolled back
C8_Witness ==
    /\ LeftNormally
    /\ last.cp.origin = "cursor"
    /\ ~last.cp.committed
    /\ Len(cps) >= 1
    /\ cps[Len(cps)].committed
    /\ last.before > last.cp.pos
    /\ pos = last.cp.pos

\* C9: a ParseError leaving a checkpoint's scope sets the cursor to that
\* checkpoint's starting offset whatever its flag and its ancestors' flags;
\* while it unwinds, the offset is the starting offset of the outermost
\* checkpoint it has passed.
C9_ErrorAlwaysRollsBack ==
    /\ LeftByError => pos = last.cp.pos
    /\ (exc # <<>> /\ Len(cps) < Len(exc[1].scopes)) =>
          pos = exc[1].scopes[Len(cps) + 1].pos

\* the error left a checkpoint whose own flag was set, after it had consumed
C9_Witness ==
    /\ LeftByError
    /\ last.cp.committed
    /\ last.before > last.cp.pos
    /\ pos = last.cp.pos

(***************************************************************************)
(* Claims about the note trail of a ParseError (checked under SpecNotes).  *)
(***************************************************************************)
\* the notes of the checkpoints scopes[i], scopes[i-1], .. scopes[k+1], each
\* checkpoint's notes as one block, the most recently added note first
RECURSIVE Blocks(_, _, _)
Blocks(scopes, i, k) ==
    IF i <= k THEN <<>>
    ELSE RenderAll(src, Rev(scopes[i].notes)) \o Blocks(scopes, i - 1, k)

RECURSIVE LineCol(_, _)
LineCol(s, p) ==
    IF p = 0 THEN [line |-> 1, column |-> 1]
    ELSE LET b == LineCol(s, p - 1)
         IN  IF s[p] = "\n" THEN [line |-> b.line + 1, column |-> 1]
             ELSE [line |-> b.line, column |-> b.column + 1]

\* the 0-based offsets of the newlines of s[0:p)
NewlinesBefore(s, p) == {i \in 0..(p - 1) : s[i + 1] = "\n"}

\* C23: for every source and every position p in 0..len(source) the note
\* reports line = 1 + the number of newlines in source[0:p) and column =
\* p minus the offset of the last newline before p (p + 1 when there is
\* none): the 1-based line and column of the character at p.
C23_LineColumn ==
    (last.op = "append_pos_note" /\ start <= Len(src)) =>
        LET nl == NewlinesBefore(src, start)
        IN  /\ last.note.line = 1 + Cardinality(nl)
            /\ last.note.column =
                   IF nl = {} THEN start + 1
                   ELSE start - (CHOOSE i \in nl : \A j \in nl : j <= i)
            /\ last.note.column >= 1
            /\ last.note.line = LineCol(src, start).line
            /\ last.note.column = LineCol(src, start).column

\* the first character of the second line: line 2, column 1
C23_Witness ==
    /\ last.op = "append_pos_note"
    /\ src = <<"a", "a", "\n", "a", "a">>
    /\ start = 3
    /\ last.note.line = 2
    /\ last.note.column = 1

(***************************************************************************)
(* Claims about the combinators (checked under SpecComb).                  *)
(***************************************************************************)
Done(kind) == phase = "done" /\ parser.kind = kind

\* the offset at which sub-matcher i+1 starts when subs[1..i] are run one
\* after another from p, each where the previous one stopped
RECURSIVE ChainPos(_, _, _, _)
ChainPos(subs, s, p, i) ==
    IF i = 0 THEN p ELSE Run(subs[i], s, ChainPos(subs, s, p, i - 1)).pos

ChainOk(subs, s, p, i) == Run(subs[i], s, ChainPos(subs, s, p, i - 1)).st = "T"

\* C1: seq(p1..pn) reports success iff p1..pn each succeed when run one after
\* another, each from the offset where the previous one stopped; on success
\* the offset is where pn stopped; on failure the offset is the one before
\* seq was invoked and no sub-matcher after the failing one was run.
C1_SeqIsAtomicAnd ==
    Done("seq") =>
        LET n == Len(parser.subs)
            k == Len(res.calls)
        IN  /\ res.st \in {"T", "F"}
            /\ res.st = "T" <=> \A i \in 1..n : ChainOk(parser.subs, src, start, i)
            /\ res.st = "T" => pos = ChainPos(parser.subs, src, start, n)
            /\ res.st = "F" =>
                /\ pos = start
                /\ k \in 1..n
                /\ \A j \in 1..k : res.calls[j].i = j
                /\ \A j \in 1..(k - 1) : res.calls[j].st = "T"
                /\ res.calls[k].st = "F"

\* a seq failed after an earlier sub-matcher had advanced the cursor
C1_Witness ==
    /\ Done("seq")
    /\ res.st = "F"
    /\ Len(res.calls) >= 2
    /\ res.calls[Len(res.calls)].at > start
    /\ pos = start

\* the matchers C2 and C4 speak of: built by literal, anycase, take, ws1, seq,
\* oneof, inverted, lookahead, repeat0, repeat1 and optional from positional
\* arguments alone (no success / fail continuation), in any nesting
RECURSIVE Listed(_)
Listed(m) ==
    /\ m.kind \in {"literal", "anycase", "take", "ws1", "seq", "oneof", "inverted",
                   "lookahead", "repeat0", "repeat1", "optional"}
    /\ m.onS = <<>> /\ m.onF = <<>>
    /\ \A i \in 1..Len(m.subs) : Listed(m.subs[i])

\* C2: whenever a matcher built by the factories (literal, anycase, take, ws1,
\* seq, oneof, inverted, lookahead, repeat0, repeat1, optional, in any nesting)
\* reports failure, the offset equals the offset at which it was invoked.
C2_FailureLeavesOffset ==
    (phase = "done" /\ Listed(parser) /\ res.st = "F") => pos = start

\* C3: oneof invokes its sub-matchers in declaration order, each only after
\* all earlier ones failed, none after the first success, and reports failure
\* only after all n were invoked and failed.
C3_OneofOrder ==
    Done("oneof") =>
        LET n == Len(parser.subs)
            k == Len(res.calls)
        IN  /\ k \in 1..n
            /\ \A j \in 1..k : res.calls[j].i = j
            /\ \A j \in 1..(k - 1) : res.calls[j].st = "F"
            /\ res.st = res.calls[k].st
            /\ res.st = "F" => k = n

\* the second of three branches matched: the third was never invoked
C3_Witness ==
    /\ Done("oneof")
    /\ Len(parser.subs) = 3
    /\ Len(res.calls) = 2
    /\ res.st = "T"
    /\ pos > start

\* C4: when the first iteration of p does not match, repeat0(p) reports
\* success and repeat1(p) reports failure, both with the offset unchanged.
C4_ZeroIterations ==
    (phase = "done" /\ parser.kind \in {"repeat0", "repeat1"} /\ Listed(parser)
        /\ Atomic(parser.subs, src, start).st = "F") =>
       /\ res.st = (IF parser.kind = "repeat0" THEN "T" ELSE "F")
       /\ pos = start

\* the wrapped sequence p1..pn of a combinator, run one sub-matcher after
\* another from the offset of the invocation: it matched / where it stopped
WrappedOk == \A i \in 1..Len(parser.subs) : ChainOk(parser.subs, src, start, i)
WrappedEnd == ChainPos(parser.subs, src, start, Len(parser.subs))

\* C18: optional(p1..pn, success=, fail=) and optional_oneof(p1..pn) report
\* success whenever they return, whatever the attempt and the continuations
\* returned.
C18_OptionalAlwaysSucceeds ==
    (Done("optional") \/ Done("optional_oneof")) => res.st = "T"

\* C19: inverted(p1..pn), n >= 1: when the wrapped sequence fails, inverted
\* reports success with the offset where it was invoked; when the wrapped
\* sequence succeeds, inverted reports failure with the offset where the
\* sequence stopped.
C19_InvertedOffsets ==
    (Done("inverted") /\ Listed(parser)) =>
        /\ ~WrappedOk => (res.st = "T" /\ pos = start)
        /\ WrappedOk => (res.st = "F" /\ pos = WrappedEnd)

C22_TokenEquality ==
    (last.op = "eq" /\ last.other.is = "Token") =>
        (last.ret <=> (/\ toks[1].token_type = last.other.v.token_type
                       /\ toks[1].pos = last.other.v.pos))

\* a Token and a Result of the same tag and range that differ in their
\* subtokens and payload, compared, and found equal
C22_Witness ==
    /\ last.op = "eq" /\ last.other.is = "Token"
    /\ last.ret
    /\ toks[1].pos = <<0, 1>>
    /\ toks[1].data # last.other.v.data
    /\ lists[toks[1].subtokens] # lists[last.other.v.subtokens]

\* C24: every Token or Result made by token(), result(), get_token() or
\* get_result() carries a well-formed half-open range into the source:
\* 0 <= start <= end <= len(source).
C24_RangesWellFormed ==
    \A i \in 1..Len(toks) :
        /\ 0 <= toks[i].pos[1]
        /\ toks[i].pos[1] <= toks[i].pos[2]
        /\ toks[i].pos[2] <= Len(src)

\* C29: in every cursor state not_eof() returns the negation of is_eof():
\* it is true exactly when at least one character remains (offset <
\* len(source)) and agrees with the cursor's truthiness; the pre-defined
\* matchers is_eof and not_eof never both succeed at the same offset.
C29_NotEofNegatesIsEof ==
    (Done("not_eof") \/ Done("is_eof")) =>
        LET e == Run(Prim("is_eof", <<>>, 0), src, start)
            n == Run(Prim("not_eof", <<>>, 0), src, start)
        IN  /\ si_not_eof(src, start).ok = ~si_is_eof(src, start).ok
            /\ si_not_eof(src, start).ok = (start < Len(src))
            /\ si_not_eof(src, start).ok = si_bool(src, start)
            /\ ~(e.st = "T" /\ n.st = "T")
            /\ res.st = (IF parser.kind = "is_eof" THEN e.st ELSE n.st)

\* C26: optional(p1..pn, success, fail) first resolves the wrapped attempt
\* atomically (on failure the offset is back where optional was invoked, for
\* n = 1 as well as n > 1) and then runs exactly one continuation: success
\* iff the wrapped sequence matched, fail iff it did not; a continuation that
\* was not supplied is skipped and the other one is not run in its place.
C26_OptionalContinuations ==
    Done("optional") =>
        LET at == IF WrappedOk THEN WrappedEnd ELSE start
            conts == {j \in 1..Len(res.calls) : res.calls[j].i <= 0}
            want == IF WrappedOk
                    THEN IF parser.onS # <<>> THEN {OnSuccess} ELSE {}
                    ELSE IF parser.onF # <<>> THEN {OnFail} ELSE {}
        IN  /\ {res.calls[j].i : j \in conts} = want
            /\ Cardinality(conts) = Cardinality(want)
            /\ \A j \in conts : j = Len(res.calls) /\ res.calls[j].at = at
            /\ conts = {} => pos = at

\* the offset after the maximal run of complete iterations of p1..pn from p
RECURSIVE RunEnd(_, _, _)
RunEnd(subs, s, p) ==
    LET ok == \A i \in 1..Len(subs) : ChainOk(subs, s, p, i)
        e == ChainPos(subs, s, p, Len(subs))
    IN  IF ok /\ e > p THEN RunEnd(subs, s, e) ELSE p

\* C25: repeat0(p1..pn) and repeat1(p1..pn) consume the maximal run of
\* complete consecutive iterations: when they return success the offset is
\* the one after the last iteration in which all of p1..pn matched, the
\* partial advance of the final, failing iteration being rolled back.
C25_MaximalRun ==
    (phase = "done" /\ parser.kind \in {"repeat0", "repeat1"} /\ res.st = "T") =>
        pos = RunEnd(parser.subs, src, start)

(***************************************************************************)
(* Claims about the loop of repeat0 / repeat1 (checked under SpecRepeat).   *)
(***************************************************************************)
\* C31: repeat0(p1..pn) and repeat1(p1..pn) terminate on every finite source
\* text for every sub-matcher the library can build, those that can succeed
\* without consuming input included: every call returns.
C31_RepeatTerminates == <>(phase = "done")

(***************************************************************************)
(* Claims about raising sub-matchers (checked under SpecRaise).            *)
(***************************************************************************)
Combinators == AnyArity \cup TwoOrMore

\* C21: no combinator catches a ParseError: once a sub-matcher raised, the
\* combinator invoked no further sub-matcher (the raising invocation is the
\* last one it made) and its own invocation raised that same error, the
\* cursor being where the raising sub-matcher left it.
C21_NoCombinatorCatches ==
    (phase # "ready" /\ parser.kind \in Combinators) =>
        \A j \in 1..Len(res.calls) :
            res.calls[j].st \in Errors =>
                /\ j = Len(res.calls)
                /\ phase = "raised"
                /\ res.st = res.calls[j].st
                /\ res.calls[j].i > 0 =>
                       pos = Run(parser.subs[res.calls[j].i], src, res.calls[j].at).pos

\* oneof whose first branch raised: the second branch was not tried
C21_Witness ==
    /\ phase = "raised"
    /\ parser = Comb("oneof", <<FatalX, LitA>>)
    /\ src = <<"a">> /\ start = 0
    /\ res.st = "E:x"
    /\ Len(res.calls) = 1

(***************************************************************************)
(* Claims about the cursor (checked under SpecCursor).                     *)
(***************************************************************************)
\* C15: in every state reachable through the public cursor operations the
\* offset satisfies 0 <= offset <= len(source).
C15_OffsetInRange == 0 <= pos /\ pos <= Len(src)

\* the call recorded in last was made with the offset inside the text
CalledInRange == last.op # "init" /\ last.before >= 0 /\ last.before <= Len(src)

\* C16: take, character, literal, their anycase variants, oneof_literals and
\* ws1 either report failure with the offset unchanged or report success
\* with the offset advanced by the length of the matched text; take(n)
\* never consumes fewer than n characters; has_chars and peek leave the
\* offset alone.
C16_PrimitivesAtomic ==
    CalledInRange =>
        /\ last.op \in {"has_chars", "peek"} => pos = last.before
        /\ last.op \in {"take", "character", "character_anycase", "literal",
                         "literal_anycase", "oneof_literals",
                         "oneof_literals_anycase", "ws1"} =>
              \/ last.ok = "F" /\ pos = last.before
              \/ last.ok = "T" /\ pos = last.before + Len(last.text)
        /\ (last.op = "take" /\ last.ok = "T") =>
              /\ pos - last.before >= last.arg
              /\ Len(last.text) >= last.arg

\* candidate v matches text s at offset p (0 <= p <= len(s)), case sensitive
\* or not
MatchesAt(v, s, p, anycase_) ==
    /\ p + Len(v) <= Len(s)
    /\ \A i \in 1..Len(v) :
          IF anycase_ THEN LowerChar(s[p + i]) = LowerChar(v[i]) ELSE s[p + i] = v[i]

\* the first candidate of vs that matches (0 when none does)
FirstMatch(vs, s, p, anycase_) ==
    LET I == {i \in 1..Len(vs) : MatchesAt(vs[i], s, p, anycase_)}
    IN  IF I = {} THEN 0 ELSE CHOOSE i \in I : \A j \in I : i <= j

\* C17: oneof_literals(list), literal(v1..vn) and anycase(v1..vn) consume the
\* first candidate, in declaration order, that matches at the offset, and
\* report it (the returned string, or the success flag); they return None /
\* failure only when no candidate matches.
C17_FirstMatchWins ==
    (CalledInRange /\ last.op \in {"oneof_literals", "oneof_literals_anycase",
                                    "literal()", "anycase()"}) =>
        LET f == FirstMatch(last.arg, src, last.before,
                            last.op \in {"oneof_literals_anycase", "anycase()"})
        IN  /\ f = 0 => (last.ok = "F" /\ pos = last.before)
            /\ f # 0 =>
                  /\ last.ok = "T"
                  /\ pos = last.before + Len(last.arg[f])
                  /\ last.op \in {"oneof_literals", "oneof_literals_anycase"} =>
                        (last.hit = f /\ last.text = last.arg[f])

\* C28: a Savepoint's captured offset never changes after construction;
\* rollback() sets the cursor to it unconditionally (so a repeated rollback
\* changes nothing); guard(v) rolls back iff v is falsy, inverted_guard(v)
\* iff v is truthy, rollback_inline(v) always; all three return v
\* unchanged; and the Savepoint never rolls back on its own: a call that
\* only looks at the cursor leaves the offset alone.
C28_Step ==
    LET op == last'.op
        v == last'.arg
    IN  /\ op # "save" => start' = start
        /\ op = "save" => start' = pos /\ pos' = pos
        /\ op = "rollback" => pos' = start
        /\ op = "guard" => pos' = (IF Truthy(v) THEN pos ELSE start)
        /\ op = "inverted_guard" => pos' = (IF Truthy(v) THEN start ELSE pos)
        /\ op = "rollback_inline" => pos' = start
        /\ op \in {"guard", "inverted_guard", "rollback_inline"} => last'.text = <<v>>
        /\ op \in {"has_chars", "peek"} => pos' = pos

C28_SavepointFrame == [][C28_Step]_vars

\* inverted_guard handed a truthy value after the cursor had moved away from
\* the saved offset: the cursor is back and the value came back unchanged
C28_Witness ==
    /\ phase = "saved"
    /\ last.op = "inverted_guard"
    /\ last.arg = "'a'"
    /\ last.before # start
    /\ pos = start
    /\ last.text = <<"'a'">>

(***************************************************************************)
(* Claims about the loop helpers (checked under SpecLoop).                 *)
(***************************************************************************)
\* C30: in `for _ in si.optional():` and `for item in si.loop(items):`,
\* leaving the body with break keeps the offset reached inside the body
\* (then and later) and yields no further item, whereas finishing the body
\* with continue, or with an exception, restores the offset saved when the
\* helper was started before the next item is yielded or the loop ends.
C30_Step ==
    LET op == last'.op
    IN  /\ op = "break" => pos' = pos /\ phase' = "after"
        /\ op = "close" => pos' = pos
        /\ op \in {"continue", "raise"} => pos' = last'.saved

C30_LoopHelpers == [][C30_Step]_vars

(***************************************************************************)
(* Claims about ParseFailure (checked under SpecFail).                     *)
(***************************************************************************)
\* C13: fail / fail_start clear the checkpoint's own committed flag and
\* return a ParseFailure carrying the source text and msg, positioned at the
\* cursor offset (fail) or at the checkpoint's starting offset (fail_start),
\* whose notes are the checkpoint's own notes in the order they were added
\* followed by the supplied notes in their given order.
C13_FailCarriesNotes ==
    last.op = "fail" =>
        /\ ~cps[last.c].committed
        /\ held[1].f.src = src
        /\ held[1].f.msg = last.msg
        /\ held[1].f.pos = (IF last.atStart THEN last.cp.pos ELSE last.before)
        /\ held[1].f.notes = last.cp.notes \o last.given

\* fail_start on a committed checkpoint that holds two notes and has moved
\* the cursor, with notes supplied
C13_Witness ==
    /\ last.op = "fail"
    /\ last.atStart
    /\ last.cp.committed
    /\ last.cp.pos < last.before
    /\ Len(last.cp.notes) = 2
    /\ last.given # <<>>
    /\ held[1].f.pos = last.cp.pos

RECURSIVE Flat(_)
Flat(q) == IF q = <<>> THEN <<>> ELSE Head(q) \o Flat(Tail(q))

\* the failure went outwards: each checkpoint that propagated it is at a
\* shallower nesting level than the one before
Bubbled(h) == \A j \in 1..(Len(h.path) - 1) : h.path[j + 1] < h.path[j]

\* C14: propagate clears the checkpoint's own committed flag and returns the
\* same failure, position and message unchanged, with the checkpoint's notes
\* merged in front of the notes already there; a failure that bubbled
\* through nested checkpoints holds every level's notes exactly once,
\* outermost level first, ahead of the notes it was made with.
C14_PropagateMerges ==
    /\ last.op = "propagate" =>
          /\ ~cps[last.c].committed
          /\ held[1].f.src = last.was.src
          /\ held[1].f.pos = last.was.pos
          /\ held[1].f.msg = last.was.msg
          /\ held[1].f.notes = last.cp.notes \o last.was.notes
    /\ (held # <<>> /\ Bubbled(held[1])) =>
          held[1].f.notes = Flat(Rev(held[1].via)) \o held[1].own \o held[1].given

\* a failure made with supplied notes has bubbled through two levels, each
\* holding a note, the second of them committed until then
C14_Witness ==
    /\ last.op = "propagate"
    /\ last.cp.committed
    /\ Bubbled(held[1])
    /\ Len(held[1].via) = 2
    /\ held[1].via[1] # <<>>
    /\ held[1].via[2] # <<>>
    /\ held[1].given # <<>>
    /\ Len(held[1].f.notes) = 4

\* the messages of a list of notes
MsgsOf(notes) == {notes[i].msg : i \in 1..Len(notes)}

\* C27: when the ParseFailure returned by fail(msg, notes) or
\* fail_start(msg, notes) is converted with error(), the diagnostic renders
\* the checkpoint's own notes above the notes that were supplied to fail.
C27_OwnNotesAboveSupplied ==
    last.op = "error()" =>
        \A i, j \in 1..Len(exc[1].trail) :
            (/\ exc[1].trail[i].msg \in MsgsOf(held[1].own)
             /\ exc[1].trail[j].msg \in MsgsOf(held[1].given)) => i < j

(***************************************************************************)
(* Claims about the nesting of commits (checked under SpecScopes)          *)
(***************************************************************************)
\* the checkpoint just left was effectively committed when it was left
LeftCommitted == last.cp.committed \/ AncestorCommitted(last.cp.parent)

\* the scope exit before the one just made was that of a checkpoint nested
\* in the one just left, and it kept a consumed range
InnerKept == last.kept # <<>> /\ last.kept[1].level > last.c

Adding == {"prepend_pos_note", "prepend_existing_note", "prepend_notes", "propagate"}

\* the notes of failure j, now and before the last operation
NotesOf(j) == lists[held[j].notes]
NotesBefore(j) == last.heap[held[j].notes]

\* C34: adding notes to a failure leaves the notes of every other failure,
\* the caller's list and the checkpoint's notes as they were, and a failure
\* constructed without notes has none.
C34_NotesOwned ==
    /\ last.op \in Adding =>
          /\ \A j \in 1..Len(held) : j # last.self => NotesOf(j) = NotesBefore(j)
          /\ lists[CallerNotes] = last.heap[CallerNotes]
          /\ lists[CheckpointNotes] = last.heap[CheckpointNotes]
    /\ (last.op = "new" /\ last.arg = DefaultNotes) => NotesOf(last.self) = <<>>

(***************************************************************************)
(* Claims about the notes of an error that leaves its scopes (SpecUnwind)  *)
(***************************************************************************)
Occurrences(x, q) == Cardinality({i \in 1..Len(q) : q[i] = x})

\* the checkpoint at nesting level k made or propagated the failure held
Contributed(k) ==
    held # <<>> /\ \E j \in 1..Len(held[1].path) : held[1].path[j] = k

\* every note the error was given: those handed to error() / fail(), those
\* of the checkpoints that made or propagated the failure it was built
\* from, and those of the other scopes it has left so far, each once
Recorded ==
    LET e == exc[1]
        left == [k \in 1..Len(e.scopes) |->
                    IF k >= last.c /\ ~Contributed(k) THEN e.scopes[k].notes ELSE <<>>]
    IN  Flat(left) \o
        (IF held = <<>> THEN e.given
         ELSE held[1].given \o held[1].own \o Flat(held[1].via))

\* C32: when a ParseError leaves a checkpoint's scope, each note recorded on
\* that checkpoint is in the error's note trail exactly as many times as it
\* was recorded (once per recording), whichever way the error was built
C32_NotesOnce ==
    (last.op = "unwind" /\ exc # <<>>) =>
        \A i \in 1..Len(last.cp.notes) :
            LET n == last.cp.notes[i]
            IN  Occurrences(RenderNote(src, n.pos, n.msg), exc[1].trail)
                    = Occurrences(n, Recorded)


(***************************************************************************)
(* Claims about Token / Result (checked under SpecTokens).                 *)
(***************************************************************************)
\* what token() / result() just returned
Returned_token == toks[last.ret]

\* C11 as stated: token(type) / result(data, type) set the own committed
\* flag and return a Token / Result with the given type (and data), the
\* range (starting offset, cursor offset), and as subtokens exactly the
\* tokens passed to subtoken() on this checkpoint so far, in call order; the
\* call does not move the cursor.
C11_Original ==
    last.op \in {"token", "result"} =>
        /\ cps[last.c].committed
        /\ Returned_token.token_type = last.type
        /\ Returned_token.data = last.data
        /\ Returned_token.pos = <<last.from, pos>>
        /\ lists[Returned_token.subtokens] = cps[last.c].passed
        /\ pos = last.before

\* C11 amended: the same, the subtokens being the tokens passed to
\* subtoken() since the checkpoint was made or last restarted.
C11_TokenOfCheckpoint ==
    last.op \in {"token", "result"} =>
        /\ cps[last.c].committed
        /\ Returned_token.token_type = last.type
        /\ Returned_token.data = last.data
        /\ Returned_token.pos = <<last.from, pos>>
        /\ lists[Returned_token.subtokens] = cps[last.c].kept
        /\ pos = last.before

\* result() on a checkpoint that has moved the cursor and was given two
\* different subtokens
C11_Witness ==
    /\ last.op = "result"
    /\ last.from < pos
    /\ Len(lists[Returned_token.subtokens]) = 2
    /\ lists[Returned_token.subtokens][1] # lists[Returned_token.subtokens][2]
    /\ Returned_token.data = "d"

\* C12: a Token / Result that was returned keeps its type tag, its range and
\* its subtokens whatever is done afterwards to the checkpoint that made it
\* or to another token.
C12_Step ==
    \A i \in 1..Len(toks) :
        /\ toks'[i] = toks[i]
        /\ lists'[toks[i].subtokens] = lists[toks[i].subtokens]

C12_TokensImmutable == [][C12_Step]_vars

====
